---- MODULE Spec2Model ----
(***************************************************************************)
(* Attendance bot (bots/attbot.py): the attendance ledger (AttendanceLog), *)
(* the rolling event window (EventLog), the name normaliser and the        *)
(* /scan_apollo command, modelled as a state machine.                      *)
(*                                                                         *)
(* Strings are sequences of one-character strings, so that the text        *)
(* operations of the source (lower, strip, split, substring test, regex    *)
(* substitution) are computed, character by character, as Python computes  *)
(* them.                                                                   *)
(***************************************************************************)
EXTENDS Integers, Sequences, FiniteSets, TLC

VARIABLES
    attendance_log, \* AttendanceLog._entries: insertion-ordered dict, a sequence of [key, value]
    event_log,      \* EventLog._events: list of EventEntry
    now,            \* the clock datetime.now() reads
    calls,          \* history of the AttendanceLog.log_attendance calls made through the API
    added,          \* history of the EventEntry records handed to EventLog.add_event through the API
    cleared,        \* how many records of added were handed over before the last EventLog.clear()
    channel,        \* the ids of the messages of the target channel, oldest first
    pc,             \* per /scan_apollo interaction: where the coroutine is
    limit,          \* per interaction: the local variable limit
    hist,           \* per interaction: the ids of the messages the history iterator has still to deliver
    scanned,        \* per interaction: the local variable scanned
    logged,         \* per interaction: the local variable logged
    sent,           \* per interaction: the messages sent to the interaction, in order
    done_before,    \* per interaction: the interactions that had returned when its history was fetched
    embed_in,       \* the embed handed to the extraction
    accepted_raw,   \* the list attendees the extraction built from embed_in
    declined_raw,   \* the list declined the extraction built from embed_in
    extracted,      \* whether the extraction has run
    name_in,        \* the string handed to normalize_name
    name_out,       \* what normalize_name returned, and what it returned for that
    leader_pc,      \* where the /leaderboard interaction is
    leader_lines,   \* /leaderboard: the local variable lines
    leader_sent,    \* the messages sent to the /leaderboard interaction, in order
    returned,       \* how the last AttendanceLog method called through the API ended
    csv_file,       \* botscanner.py: the attendance CSV of the month
    scanner         \* botscanner.py: per invocation of its scan_apollo command, the frame

vars == <<attendance_log, event_log, now, calls, added, cleared, channel, pc, limit, hist,
          scanned, logged, sent, done_before,
          embed_in, accepted_raw, declined_raw, extracted, name_in, name_out,
          leader_pc, leader_lines, leader_sent, returned, csv_file, scanner>>

ledgerVars == <<attendance_log, now, calls>>
windowVars == <<event_log, added, cleared>>
scanVars == <<channel, pc, limit, hist, scanned, logged, sent, done_before>>
extractVars == <<embed_in, accepted_raw, declined_raw, extracted>>
normVars == <<name_in, name_out>>
leaderVars == <<leader_pc, leader_lines, leader_sent>>
queryVars == <<returned>>
csvVars == <<csv_file, scanner>>

----------------------------------------------------------------------------
(* Bounds of the model *)

NumScans == 2    \* concurrent /scan_apollo interactions
MaxTime == 1     \* the clock runs from 0 to MaxTime
MaxCalls == 3    \* log_attendance calls made through the API
MaxAdds == 10    \* add_event calls made through the API
MaxLen == 5      \* length of the strings handed to normalize_name
MaxPosts == 1    \* announcements posted to the channel while the bot runs
MaxRuns == 2     \* invocations of the scan_apollo command of botscanner.py

(* Program constants *)

max_events == 8      \* EventLog.__init__(max_events=8)
MaxLimit == 100      \* limit = min(limit, 100)

----------------------------------------------------------------------------
(* Characters and Python's str operations *)

\* the characters are those of Latin-1 (code points 0 to 255).  UpperChars are
\* the characters c with c.lower() != c, LowerChars[i] is UpperChars[i].lower()
UpperChars == <<"A","B","C","D","E","F","G","H","I","J","K","L","M",
                "N","O","P","Q","R","S","T","U","V","W","X","Y","Z",
                "À","Á","Â","Ã","Ä","Å","Æ","Ç","È","É","Ê","Ë","Ì",
                "Í","Î","Ï","Ð","Ñ","Ò","Ó","Ô","Õ","Ö","Ø","Ù","Ú",
                "Û","Ü","Ý","Þ">>
LowerChars == <<"a","b","c","d","e","f","g","h","i","j","k","l","m",
                "n","o","p","q","r","s","t","u","v","w","x","y","z",
                "à","á","â","ã","ä","å","æ","ç","è","é","ê","ë","ì",
                "í","î","ï","ð","ñ","ò","ó","ô","õ","ö","ø","ù","ú",
                "û","ü","ý","þ">>
DigitChars == <<"0","1","2","3","4","5","6","7","8","9">>

Range(s) == {s[i] : i \in 1..Len(s)}

\* the characters above code point 127 that \w matches and that are neither in
\* UpperChars nor in LowerChars
OtherWordChars == {"ª", "²", "³", "µ", "¹", "º", "¼", "½", "¾", "ß", "ÿ"}

\* \w of the re module (a str pattern: the Unicode word characters and "_")
WordChars ==
    Range(UpperChars) \cup Range(LowerChars) \cup Range(DigitChars) \cup {"_"}
        \cup OtherWordChars
IsWord(c) == c \in WordChars

\* \s of the re module and the characters str.strip() removes: code points
\* 9 to 13, 28 to 32, 133 and 160
SpaceChars == {"\t", "\n", "", "\f", "\r", "", "", "", "", " ", "", " "}
IsSpace(c) == c \in SpaceChars

LowerOf ==
    [c \in Range(UpperChars) |->
        LowerChars[CHOOSE i \in 1..Len(UpperChars) : UpperChars[i] = c]]
LowerChar(c) == IF c \in Range(UpperChars) THEN LowerOf[c] ELSE c

\* str.lower()
lower(s) == [i \in 1..Len(s) |-> LowerChar(s[i])]

\* the number of leading (trailing) characters of s that are in chars
RECURSIVE LeadCount(_, _, _)
LeadCount(s, chars, i) ==
    IF i > Len(s) \/ s[i] \notin chars THEN i - 1 ELSE LeadCount(s, chars, i + 1)

RECURSIVE TrailCount(_, _, _)
TrailCount(s, chars, i) ==
    IF i < 1 \/ s[i] \notin chars THEN Len(s) - i ELSE TrailCount(s, chars, i - 1)

\* str.strip(chars): removes the characters of chars from both ends
strip_chars(s, chars) ==
    LET a == LeadCount(s, chars, 1)
        b == TrailCount(s, chars, Len(s))
    IN IF a >= Len(s) THEN <<>> ELSE SubSeq(s, a + 1, Len(s) - b)

\* str.strip(): removes whitespace from both ends
strip(s) == strip_chars(s, SpaceChars)

\* str.split(sep) for a one-character separator: always at least one piece
RECURSIVE split(_, _)
split(s, sep) ==
    IF \A i \in 1..Len(s) : s[i] # sep
    THEN <<s>>
    ELSE LET k == CHOOSE i \in 1..Len(s) :
                      s[i] = sep /\ \A j \in 1..(i - 1) : s[j] # sep
         IN <<SubSeq(s, 1, k - 1)>> \o split(SubSeq(s, k + 1, Len(s)), sep)

\* sub in s
Contains(sub, s) ==
    \E i \in 1..(Len(s) - Len(sub) + 1) : SubSeq(s, i, i + Len(sub) - 1) = sub

\* s.startswith(prefix)
startswith(s, prefix) ==
    Len(s) >= Len(prefix) /\ SubSeq(s, 1, Len(prefix)) = prefix

\* str(n) of a non-negative integer
RECURSIVE Str(_)
Str(n) ==
    IF n < 10 THEN <<DigitChars[n + 1]>>
    ELSE Str(n \div 10) \o <<DigitChars[(n % 10) + 1]>>

\* re.sub(r"[^\w\s]", "", name)
RemovePunctuation(s) == SelectSeq(s, LAMBDA c : IsWord(c) \/ IsSpace(c))

\* re.sub(r"\s+", " ", name): every maximal run of whitespace becomes one space
RECURSIVE CollapseFrom(_, _)
CollapseFrom(s, i) ==
    IF i > Len(s) THEN <<>>
    ELSE IF ~IsSpace(s[i]) THEN <<s[i]>> \o CollapseFrom(s, i + 1)
    ELSE IF i > 1 /\ IsSpace(s[i - 1]) THEN CollapseFrom(s, i + 1)
    ELSE <<" ">> \o CollapseFrom(s, i + 1)

CollapseWhitespace(s) == CollapseFrom(s, 1)

\* variant: whitespace is collapsed before the punctuation is removed
normalize_name_collapsing_first(name) ==
    strip(RemovePunctuation(CollapseWhitespace(lower(name))))

\* variant: the case is kept
normalize_name_keeping_case(name) == strip(CollapseWhitespace(RemovePunctuation(name)))

normalize_name(name) == strip(CollapseWhitespace(RemovePunctuation(lower(name))))

----------------------------------------------------------------------------
(* AttendanceEntry and AttendanceLog *)

DashStr == <<"-">>
DeclinedSuffix == <<"-","d","e","c","l","i","n","e","d">>

AttendanceEntry(user_id, username, event_id, response, timestamp) ==
    [user_id |-> user_id, username |-> username, event_id |-> event_id,
     response |-> response, timestamp |-> timestamp]

\* variant: the parts of the key follow each other without the hyphens
pseudo_id_without_separator(entry) ==
    IF entry.response = "accepted"
    THEN Str(entry.event_id) \o entry.user_id
    ELSE Str(entry.event_id) \o entry.user_id \o Tail(DeclinedSuffix)

\* variant: the response is left out of the key
pseudo_id_without_response(entry) == Str(entry.event_id) \o DashStr \o entry.user_id

\* AttendanceEntry.pseudo_id
pseudo_id(entry) ==
    IF entry.response = "accepted"
    THEN Str(entry.event_id) \o DashStr \o entry.user_id
    ELSE Str(entry.event_id) \o DashStr \o entry.user_id \o DeclinedSuffix

\* variant: the lookup compares the user ids of the entries, not the keys
already_logged_by_user_id(entries, pid) ==
    \E i \in 1..Len(entries) : entries[i].value.user_id = pid

\* the position of key in an insertion-ordered dict, 0 if it is not there
IndexOfKey(dict, key) ==
    IF \E i \in 1..Len(dict) : dict[i].key = key
    THEN CHOOSE i \in 1..Len(dict) : dict[i].key = key
    ELSE 0

\* AttendanceLog.already_logged: pseudo_id in self._entries
already_logged(entries, pid) == \E i \in 1..Len(entries) : entries[i].key = pid

\* variant: an entry that is already there is overwritten
add_entry_overwriting(entries, entry) ==
    IF \E i \in 1..Len(entries) : entries[i].key = pseudo_id(entry)
    THEN [entries |-> [i \in 1..Len(entries) |->
                          IF entries[i].key = pseudo_id(entry)
                          THEN [key |-> pseudo_id(entry), value |-> entry]
                          ELSE entries[i]],
          ret |-> FALSE]
    ELSE [entries |-> Append(entries, [key |-> pseudo_id(entry), value |-> entry]),
          ret |-> TRUE]

\* variant: the dict is replaced by one that holds the new entry only
add_entry_replacing_dict(entries, entry) ==
    IF ~already_logged(entries, pseudo_id(entry))
    THEN [entries |-> <<[key |-> pseudo_id(entry), value |-> entry]>>, ret |-> TRUE]
    ELSE [entries |-> entries, ret |-> FALSE]

\* AttendanceLog.add_entry: the dict after the call and the value returned
add_entry(entries, entry) ==
    IF ~already_logged(entries, pseudo_id(entry))
    THEN [entries |-> Append(entries, [key |-> pseudo_id(entry), value |-> entry]),
          ret |-> TRUE]
    ELSE [entries |-> entries, ret |-> FALSE]

\* AttendanceLog.log_attendance; ts is what datetime.now() returns in __post_init__
log_attendance(entries, user_id, username, event_id, response, ts) ==
    add_entry(entries, AttendanceEntry(user_id, strip(username), event_id, response, ts))

\* AttendanceLog.get_user_entries
get_user_entries(entries, user_id) ==
    SelectSeq([i \in 1..Len(entries) |-> entries[i].value],
              LAMBDA entry : entry.user_id = user_id)

\* AttendanceLog.get_event_entries
get_event_entries(entries, event_id) ==
    SelectSeq([i \in 1..Len(entries) |-> entries[i].value],
              LAMBDA entry : entry.event_id = event_id)

\* summary[username][response] += 1 on the defaultdict whose values are the
\* plain dicts {"accepted": 0, "declined": 0}: reading any other key raises
\* KeyError, after the defaultdict has made the username's dict
Summarize(summary, username, response) ==
    LET at == IndexOfKey(summary, username)
        made == IF at = 0
                THEN Append(summary, [key |-> username,
                                      value |-> [accepted |-> 0, declined |-> 0]])
                ELSE summary
        k == IF at = 0 THEN Len(made) ELSE at
    IN IF response = "accepted"
       THEN [raised |-> "none",
             value |-> [made EXCEPT ![k].value.accepted = @ + 1]]
       ELSE IF response = "declined"
       THEN [raised |-> "none",
             value |-> [made EXCEPT ![k].value.declined = @ + 1]]
       ELSE [raised |-> "KeyError", value |-> made]

\* the loop of get_attendance_summary over the first n entries
RECURSIVE SummaryOf(_, _)
SummaryOf(entries, n) ==
    IF n = 0 THEN [raised |-> "none", value |-> <<>>]
    ELSE LET before == SummaryOf(entries, n - 1)
         IN IF before.raised # "none" THEN before
            ELSE Summarize(before.value, entries[n].value.username,
                           entries[n].value.response)

\* AttendanceLog.get_attendance_summary: what it returns, or what it raises
get_attendance_summary(entries) == SummaryOf(entries, Len(entries))

\* AttendanceLog.total_entries
total_entries(entries) == Len(entries)

----------------------------------------------------------------------------
(* EventEntry and EventLog *)

EventEntry(event_id, accepted, declined, timestamp) ==
    [event_id |-> event_id, accepted |-> accepted, declined |-> declined,
     timestamp |-> timestamp]

\* variant: nothing is dropped
add_event_unbounded(events, event) == Append(events, event)

\* variant: the newest record is dropped, not the oldest
add_event_dropping_newest(events, event) ==
    IF Len(events) >= max_events THEN events ELSE Append(events, event)

\* EventLog.add_event: append, then drop the oldest record when over max_events
add_event(events, event) ==
    LET appended == Append(events, event)
    IN IF Len(appended) > max_events THEN Tail(appended) ELSE appended

\* EventLog.recent_events: a copy of the list
recent_events(events) == events

\* EventLog.total_events
total_events(events) == Len(events)

\* position of key in an insertion-ordered dict (0 when absent)
IndexOf(summary, key) ==
    IF \E i \in 1..Len(summary) : summary[i].key = key
    THEN CHOOSE i \in 1..Len(summary) : summary[i].key = key
    ELSE 0

\* variant: the display name is assigned at every occurrence
RECURSIVE CountPairs_assigning_always(_, _, _)
CountPairs_assigning_always(summary, pairs, which) ==
    IF pairs = <<>> THEN summary
    ELSE LET norm_name == Head(pairs)[1]
             display_name == Head(pairs)[2]
             s1 == IF IndexOf(summary, norm_name) = 0
                   THEN Append(summary, [key |-> norm_name, display_name |-> display_name,
                                         accepted |-> 0, declined |-> 0])
                   ELSE summary
             k == IndexOf(s1, norm_name)
             s2 == [s1 EXCEPT ![k][which] = @ + 1, ![k].display_name = display_name]
         IN CountPairs_assigning_always(s2, Tail(pairs), which)

\* one pass of "for norm_name, display_name in event.<which>" of get_all_participants
RECURSIVE CountPairs(_, _, _)
CountPairs(summary, pairs, which) ==
    IF pairs = <<>> THEN summary
    ELSE LET norm_name == Head(pairs)[1]
             display_name == Head(pairs)[2]
             s1 == IF IndexOf(summary, norm_name) = 0
                   THEN Append(summary, [key |-> norm_name, display_name |-> display_name,
                                         accepted |-> 0, declined |-> 0])
                   ELSE summary
             k == IndexOf(s1, norm_name)
             s2 == [s1 EXCEPT ![k][which] = @ + 1]
         IN CountPairs(s2, Tail(pairs), which)

RECURSIVE FoldParticipants(_, _)
FoldParticipants(summary, events) ==
    IF events = <<>> THEN summary
    ELSE FoldParticipants(
             CountPairs(CountPairs(summary, Head(events).accepted, "accepted"),
                        Head(events).declined, "declined"),
             Tail(events))

\* any(norm == normalized_name for norm, _ in pairs)
Lists(pairs, normalized_name) == \E p \in 1..Len(pairs) : pairs[p][1] = normalized_name

\* variant: every occurrence of the name in a list is counted
RECURSIVE get_user_participation_per_occurrence(_, _)
get_user_participation_per_occurrence(events, normalized_name) ==
    IF events = <<>> THEN [accepted |-> 0, declined |-> 0]
    ELSE LET rest == get_user_participation_per_occurrence(
                         SubSeq(events, 1, Len(events) - 1), normalized_name)
             event == events[Len(events)]
         IN [accepted |-> rest.accepted
                 + Cardinality({p \in 1..Len(event.accepted) :
                                    event.accepted[p][1] = normalized_name}),
             declined |-> rest.declined
                 + Cardinality({p \in 1..Len(event.declined) :
                                    event.declined[p][1] = normalized_name})]

\* EventLog.get_user_participation
RECURSIVE get_user_participation(_, _)
get_user_participation(events, normalized_name) ==
    IF events = <<>> THEN [accepted |-> 0, declined |-> 0]
    ELSE LET rest == get_user_participation(SubSeq(events, 1, Len(events) - 1),
                                            normalized_name)
             event == events[Len(events)]
         IN [accepted |-> rest.accepted
                 + (IF Lists(event.accepted, normalized_name) THEN 1 ELSE 0),
             declined |-> rest.declined
                 + (IF Lists(event.declined, normalized_name) THEN 1 ELSE 0)]

\* EventLog.get_all_participants: an insertion-ordered dict
\* key -> {display_name, accepted, declined}
get_all_participants(events) == FoldParticipants(<<>>, events)

----------------------------------------------------------------------------
(* The extraction of scan_apollo: one embed to the lists attendees, declined *)

AcceptedStr == <<"a","c","c","e","p","t","e","d">>
DeclinedStr == <<"d","e","c","l","i","n","e","d">>
XStr == <<"x">>
NewLine == "\n"

\* name = line.strip("- ").strip()
LineName(line) == strip(strip_chars(line, {"-", " "}))

\* for line in value.split("\n"): name = ...; if name: append(name)
RECURSIVE NamesOfLines(_)
NamesOfLines(lines) ==
    IF lines = <<>> THEN <<>>
    ELSE (IF LineName(Head(lines)) # <<>> THEN <<LineName(Head(lines))>> ELSE <<>>)
         \o NamesOfLines(Tail(lines))

FieldNames(value) == NamesOfLines(split(value, NewLine))

\* if "accepted" in field.name.lower()
IsAcceptedField(field) == Contains(AcceptedStr, lower(field.name))

\* variant: only "declined" is looked for
IsDeclinedField_without_x(field) == Contains(DeclinedStr, lower(field.name))

\* if "declined" in field.name.lower() or "x" in field.name.lower()
IsDeclinedField(field) ==
    Contains(DeclinedStr, lower(field.name)) \/ Contains(XStr, lower(field.name))

RECURSIVE AttendeesOfFields(_)
AttendeesOfFields(fields) ==
    IF fields = <<>> THEN <<>>
    ELSE (IF IsAcceptedField(Head(fields)) THEN FieldNames(Head(fields).value) ELSE <<>>)
         \o AttendeesOfFields(Tail(fields))

RECURSIVE DeclinedOfFields(_)
DeclinedOfFields(fields) ==
    IF fields = <<>> THEN <<>>
    ELSE (IF IsDeclinedField(Head(fields)) THEN FieldNames(Head(fields).value) ELSE <<>>)
         \o DeclinedOfFields(Tail(fields))

\* the description: lines that start with "-" once stripped
RECURSIVE NamesOfDescription(_)
NamesOfDescription(lines) ==
    IF lines = <<>> THEN <<>>
    ELSE (IF startswith(strip(Head(lines)), DashStr) /\ LineName(Head(lines)) # <<>>
          THEN <<LineName(Head(lines))>> ELSE <<>>)
         \o NamesOfDescription(Tail(lines))

\* if embed.description: ... (None and "" are both falsy; both are <<>> here)
DescriptionNames(description) ==
    IF description # <<>> THEN NamesOfDescription(split(description, NewLine)) ELSE <<>>

\* the list attendees when the embed has been read
Attendees(embed) == AttendeesOfFields(embed.fields) \o DescriptionNames(embed.description)

\* the list declined when the embed has been read
Declined(embed) == DeclinedOfFields(embed.fields)

\* [(normalize_name(name), name) for name in names]
Normalized(names) == [i \in 1..Len(names) |-> <<normalize_name(names[i]), names[i]>>]

----------------------------------------------------------------------------
(* The messages of the channel.  The glyph Apollo puts after a field name   *)
(* is written "*": a character that is neither a letter nor whitespace.     *)

Field(name, value) == [name |-> name, value |-> value]
Embed(fields, description) == [fields |-> fields, description |-> description]
Message(id, author, embeds) == [id |-> id, author |-> author, embeds |-> embeds]

ApolloName == <<"A","p","o","l","l","o">>
OtherName == <<"a","p","o","l","l","o","-","f","a","n">>

EmbedJaneBobRay ==
    Embed(<<Field(<<"A","c","c","e","p","t","e","d"," ","*">>, <<"-"," ","J","a","n","e","\n","-"," ","B","o","b">>), Field(<<"D","e","c","l","i","n","e","d"," ","*">>, <<"-"," ","R","a","y">>)>>, <<>>)
EmbedDescription == Embed(<<>>, <<"-"," ","A","l","i","c","e","\n","-"," ","C","a","r","o","l">>)
EmbedSpellings ==
    Embed(<<Field(<<"D","e","c","l","i","n","e","d"," ","*">>, <<"-"," ","B","o","b","\n","-"," ","R","a","y">>),
            Field(<<"A","C","C","E","P","T","E","D">>, <<"-"," ","J","A","N","E","\n","-"," "," ","J","a","n","e","."," ","\n","\n","-"," ","C","p","l"," ","C","."," ","H","a","r","t">>)>>, <<>>)
EmbedBoth ==
    Embed(<<Field(<<"x","-","a","c","c","e","p","t","e","d">>, <<"-"," ","R","a","y">>), Field(<<"N","o","t","e","s">>, <<"-"," ","B","o","b">>)>>, <<"R","o","s","t","e","r","\n"," ","-"," ","J","a","n","e">>)
EmbedNothing == Embed(<<>>, <<>>)
EmbedDeclinedOnly == Embed(<<Field(<<"D","e","c","l","i","n","e","d"," ","*">>, <<"-"," ","R","a","y">>)>>, <<>>)
EmbedJane == Embed(<<Field(<<"A","c","c","e","p","t","e","d"," ","*">>, <<"-"," ","J","a","n","e">>)>>, <<>>)
EmbedBob == Embed(<<Field(<<"A","c","c","e","p","t","e","d"," ","*">>, <<"-"," ","B","o","b">>), Field(<<"D","e","c","l","i","n","e","d"," ","*">>, <<"-"," ","J","a","n","e">>)>>, <<>>)

EmbedRoster ==
    Embed(<<Field(<<"A","c","c","e","p","t","e","d"," ","*">>, <<"-"," ","Z","e","d","\n","-"," ","C","y","\n","-"," ","A","m","y">>),
            Field(<<"D","e","c","l","i","n","e","d"," ","*">>, <<"-"," ","B","o","b","\n","-"," ","B","e","a">>)>>, <<>>)
EmbedLater ==
    Embed(<<Field(<<"A","c","c","e","p","t","e","d"," ","*">>, <<"-"," ","Z","e","d">>), Field(<<"D","e","c","l","i","n","e","d"," ","*">>, <<"-"," ","B","O","B">>)>>, <<>>)

EmbedThird ==
    Embed(<<Field(<<"A","c","c","e","p","t","e","d"," ","*">>, <<"-"," ","C","y">>), Field(<<"D","e","c","l","i","n","e","d"," ","*">>, <<"-"," ","B","e","a","\n","-"," ","B","o","b">>)>>, <<>>)

\* the messages by id (snowflakes grow with the time of posting)
MessageIds == 1001..(1011 + MaxPosts)

Msg(id) ==
    CASE id = 1000 -> Message(id, ApolloName, <<EmbedDeclinedOnly>>)
      [] id = 1001 -> Message(id, ApolloName, <<EmbedJaneBobRay>>)
      [] id = 1002 -> Message(id, ApolloName, <<EmbedSpellings>>)
      [] id = 1003 -> Message(id, ApolloName, <<EmbedJaneBobRay, EmbedDescription>>)
      [] id = 1004 -> Message(id, OtherName, <<EmbedJaneBobRay>>)
      [] id = 1005 -> Message(id, ApolloName, <<>>)
      [] id = 1006 -> Message(id, ApolloName, <<EmbedBoth>>)
      [] id = 1007 -> Message(id, ApolloName, <<EmbedNothing>>)
      [] id \in {1008, 1010} -> Message(id, ApolloName, <<EmbedJane, EmbedBob>>)
      [] id = 1009 -> Message(id, ApolloName, <<EmbedBob, EmbedJane>>)
      [] id = 1011 -> Message(id, ApolloName, <<EmbedRoster>>)
      [] id = 1012 -> Message(id, ApolloName, <<EmbedLater>>)
      [] id > 1012 -> Message(id, ApolloName, <<EmbedThird>>)

\* the announcements Apollo posts while the bot runs
PostedIds == {id \in MessageIds : id > 1011}

\* the channels the model starts from: the ids of the messages, oldest first
Channels ==
    { <<>>,
      <<1001>>,
      <<1001, 1002>>,
      <<1003>>,
      <<1004, 1005>>,
      <<1006, 1007>>,
      <<1008, 1009, 1010>> }

\* the values of the parameter limit that are tried
Limits == {1, 150}

Scans == 1..NumScans

----------------------------------------------------------------------------
(* /scan_apollo *)

\* variant: the author's name is compared without regard to case
IsCandidate_ignoring_case(msg) == Contains(lower(ApolloName), lower(msg.author))

\* if "Apollo" not in msg.author.name: continue
IsCandidate(msg) == Contains(ApolloName, msg.author)

\* variant: the loop over declined builds its key without the suffix
scan_pseudo_id_without_suffix(msg_id, user_id, response) ==
    Str(msg_id) \o DashStr \o user_id

\* the f-strings of the two logging loops
scan_pseudo_id(msg_id, user_id, response) ==
    IF response = "accepted"
    THEN Str(msg_id) \o DashStr \o user_id
    ELSE Str(msg_id) \o DashStr \o user_id \o DeclinedSuffix

\* one logging loop: st is [entries, logged]
RECURSIVE LogPairs(_, _, _, _, _)
LogPairs(st, pairs, msg_id, response, ts) ==
    IF pairs = <<>> THEN st
    ELSE LET user_id == Head(pairs)[1]
             pretty == Head(pairs)[2]
             st1 == IF ~already_logged(st.entries, scan_pseudo_id(msg_id, user_id, response))
                    THEN [entries |-> log_attendance(st.entries, user_id, pretty,
                                                     msg_id, response, ts).entries,
                          logged |-> st.logged + 1]
                    ELSE st
         IN LogPairs(st1, Tail(pairs), msg_id, response, ts)

\* variant: the entries of the event whose record leaves the window are removed
ProcessEmbed_forgetting_evicted(st, msg_id, embed, ts) ==
    LET normalized_declined == Normalized(Declined(embed))
        normalized_attendees == Normalized(Attendees(embed))
        event == EventEntry(msg_id, normalized_attendees, normalized_declined, ts)
        kept == IF Len(st.events) >= max_events
                THEN SelectSeq(st.entries,
                               LAMBDA e : e.value.event_id # Head(st.events).event_id)
                ELSE st.entries
        l0 == [entries |-> kept, logged |-> st.logged]
        l1 == LogPairs(l0, normalized_attendees, msg_id, "accepted", ts)
        l2 == LogPairs(l1, normalized_declined, msg_id, "declined", ts)
    IN [entries |-> l2.entries,
        events |-> add_event(st.events, event),
        logged |-> l2.logged]

\* variant: the loop over declined runs before the loop over the attendees
ProcessEmbed_declined_first(st, msg_id, embed, ts) ==
    LET normalized_declined == Normalized(Declined(embed))
        normalized_attendees == Normalized(Attendees(embed))
        event == EventEntry(msg_id, normalized_attendees, normalized_declined, ts)
        l0 == [entries |-> st.entries, logged |-> st.logged]
        l1 == LogPairs(l0, normalized_declined, msg_id, "declined", ts)
        l2 == LogPairs(l1, normalized_attendees, msg_id, "accepted", ts)
    IN [entries |-> l2.entries,
        events |-> add_event(st.events, event),
        logged |-> l2.logged]

\* variant: the loop over the declined names is left out
ProcessEmbed_logging_accepted_only(st, msg_id, embed, ts) ==
    LET normalized_declined == Normalized(Declined(embed))
        normalized_attendees == Normalized(Attendees(embed))
        event == EventEntry(msg_id, normalized_attendees, normalized_declined, ts)
        l0 == [entries |-> st.entries, logged |-> st.logged]
        l1 == LogPairs(l0, normalized_attendees, msg_id, "accepted", ts)
    IN [entries |-> l1.entries,
        events |-> add_event(st.events, event),
        logged |-> l1.logged]

\* the body of "for embed in msg.embeds": st is [entries, events, logged]
ProcessEmbed(st, msg_id, embed, ts) ==
    LET normalized_declined == Normalized(Declined(embed))
        normalized_attendees == Normalized(Attendees(embed))
        event == EventEntry(msg_id, normalized_attendees, normalized_declined, ts)
        l0 == [entries |-> st.entries, logged |-> st.logged]
        l1 == LogPairs(l0, normalized_attendees, msg_id, "accepted", ts)
        l2 == LogPairs(l1, normalized_declined, msg_id, "declined", ts)
    IN [entries |-> l2.entries,
        events |-> add_event(st.events, event),
        logged |-> l2.logged]

\* variant: a message without embeds leaves an empty record in the window
RECURSIVE ProcessEmbeds_recording_every_message(_, _, _, _)
ProcessEmbeds_recording_every_message(st, msg_id, embeds, ts) ==
    IF embeds = <<>>
    THEN [st EXCEPT !.events = add_event(st.events, EventEntry(msg_id, <<>>, <<>>, ts))]
    ELSE IF Len(embeds) = 1
    THEN ProcessEmbed(st, msg_id, Head(embeds), ts)
    ELSE ProcessEmbeds_recording_every_message(
             ProcessEmbed(st, msg_id, Head(embeds), ts), msg_id, Tail(embeds), ts)

\* for embed in msg.embeds
RECURSIVE ProcessEmbeds(_, _, _, _)
ProcessEmbeds(st, msg_id, embeds, ts) ==
    IF embeds = <<>> THEN st
    ELSE ProcessEmbeds(ProcessEmbed(st, msg_id, Head(embeds), ts), msg_id, Tail(embeds), ts)

Reverse(s) == [i \in 1..Len(s) |-> s[Len(s) + 1 - i]]
Min(a, b) == IF a <= b THEN a ELSE b

\* target_channel.history(limit=limit): the newest limit messages, newest first
history(msgs, lim) == Reverse(SubSeq(msgs, Len(msgs) - Min(lim, Len(msgs)) + 1, Len(msgs)))

\* interaction.response.is_done()
is_done(msgs) ==
    \E i \in 1..Len(msgs) : msgs[i].via \in {"response.send_message", "response.defer"}

\* send_response(interaction, content)
send_response(msgs, content) ==
    IF is_done(msgs)
    THEN Append(msgs, [via |-> "followup.send", content |-> content])
    ELSE Append(msgs, [via |-> "response.send_message", content |-> content])

\* defer_response(interaction)
defer_response(msgs) == Append(msgs, [via |-> "response.defer", content |-> <<>>])

\* interaction.followup.send(content)
followup_send(msgs, content) == Append(msgs, [via |-> "followup.send", content |-> content])

----------------------------------------------------------------------------
(* botscanner.py: the attendance CSV and the scan_apollo command *)

\* os.path.isfile(filename) is false; the rows are those below the header
NoFile == [exists |-> FALSE, rows |-> <<>>]

\* a local variable that has been assigned no value yet, and one that has
Unbound == <<>>
Bound(value) == <<value>>

\* the invocations of the scan_apollo command, in the order they are made
ScannerRuns == 1..MaxRuns

\* the frame of an invocation that has not been made yet; once it is made
\* these are the values of its locals (name and pseudo_id have none)
IdleFrame ==
    [pc |-> "idle", hist |-> <<>>, scanned |-> 0, logged |-> 0,
     name |-> Unbound, pseudo_id |-> Unbound,
     sent |-> <<>>, printed |-> <<>>, raised |-> "none"]

\* botscanner.already_logged(pseudo_id, message_id): the UserID column of a
\* row is compared with the pseudo id, the EventID column with str(message_id)
csv_already_logged(file, pid, message_id) ==
    /\ file.exists
    /\ \E i \in 1..Len(file.rows) :
           file.rows[i].UserID = pid /\ file.rows[i].EventID = Str(message_id)

\* botscanner.log_attendance(user_id, username, event_id, response): the
\* header is written when the file is created, then the row, as csv text
csv_log_attendance(file, user_id, username, event_id, response, ts) ==
    [exists |-> TRUE,
     rows |-> Append(file.rows, [Timestamp |-> ts, UserID |-> user_id,
                                 Username |-> username, EventID |-> Str(event_id),
                                 Response |-> response])]

\* the value of the local variable name after the loops over the fields and
\* the description: every line of a matching field assigns it, empty or not
RECURSIVE NameAfterFields(_, _)
NameAfterFields(fields, name) ==
    IF fields = <<>> THEN name
    ELSE LET lines == split(Head(fields).value, NewLine)
         IN NameAfterFields(Tail(fields),
                            IF IsAcceptedField(Head(fields)) \/ IsDeclinedField(Head(fields))
                            THEN Bound(LineName(lines[Len(lines)]))
                            ELSE name)

NameAfterDescription(description, name) ==
    LET lines == IF description = <<>> THEN <<>> ELSE split(description, NewLine)
        marked == SelectSeq(lines, LAMBDA line : startswith(strip(line), DashStr))
    IN IF marked = <<>> THEN name ELSE Bound(LineName(marked[Len(marked)]))

\* "for name in attendees": fr is the frame and file the CSV; the count
\* logged grows for every name, appended or not
RECURSIVE LogAttendees(_, _, _)
LogAttendees(st, names, msg_id) ==
    IF names = <<>> THEN st
    ELSE LET name == Head(names)
             pid == Str(msg_id) \o DashStr \o name
             file == IF ~csv_already_logged(st.file, pid, msg_id)
                     THEN csv_log_attendance(st.file, name, name, msg_id, "accepted", st.ts)
                     ELSE st.file
         IN LogAttendees([st EXCEPT !.file = file,
                                    !.fr.name = Bound(name),
                                    !.fr.pseudo_id = Bound(pid),
                                    !.fr.logged = @ + 1],
                         Tail(names), msg_id)

\* the else of that for, which runs whenever the loop ends: the print reads
\* name and pseudo_id, and raises UnboundLocalError if one has no value yet
AfterAttendees(st) ==
    IF st.fr.name = Unbound \/ st.fr.pseudo_id = Unbound
    THEN [st EXCEPT !.fr.raised = "UnboundLocalError"]
    ELSE [st EXCEPT !.fr.printed =
              Append(@, [name |-> st.fr.name[1], pseudo_id |-> st.fr.pseudo_id[1]])]

\* "for name in declined"
RECURSIVE LogDeclined(_, _, _)
LogDeclined(st, names, msg_id) ==
    IF names = <<>> THEN st
    ELSE LET name == Head(names)
             pid == Str(msg_id) \o DashStr \o name \o DeclinedSuffix
             new == ~csv_already_logged(st.file, pid, msg_id)
             file == IF new
                     THEN csv_log_attendance(st.file, name, name, msg_id, "declined", st.ts)
                     ELSE st.file
         IN LogDeclined([st EXCEPT !.file = file,
                                   !.fr.name = Bound(name),
                                   !.fr.pseudo_id = Bound(pid),
                                   !.fr.logged = IF new THEN @ + 1 ELSE @,
                                   !.fr.printed =
                                       IF new THEN @
                                       ELSE Append(@, [name |-> name, pseudo_id |-> pid])],
                        Tail(names), msg_id)

\* the body of "for embed in msg.embeds": st is [fr, file, ts]
ScanEmbed(st, msg_id, embed) ==
    LET named == [st EXCEPT !.fr.name =
                      NameAfterDescription(embed.description,
                                           NameAfterFields(embed.fields, @))]
        a == AfterAttendees(LogAttendees(named, Attendees(embed), msg_id))
    IN IF a.fr.raised # "none" THEN a
       ELSE LogDeclined(a, Declined(embed), msg_id)

\* for embed in msg.embeds, left when an exception is raised
RECURSIVE ScanEmbeds(_, _, _)
ScanEmbeds(st, msg_id, embeds) ==
    IF embeds = <<>> \/ st.fr.raised # "none" THEN st
    ELSE ScanEmbeds(ScanEmbed(st, msg_id, Head(embeds)), msg_id, Tail(embeds))

----------------------------------------------------------------------------
(* The bot: /scan_apollo interactions over one channel *)

\* the state after the module is loaded: empty ledger, empty window, no command running
InitWith(chans, embeds, names) ==
    /\ attendance_log = <<>>
    /\ event_log = <<>>
    /\ now = 0
    /\ calls = <<>>
    /\ added = <<>>
    /\ cleared = 0
    /\ channel \in chans
    /\ pc = [s \in Scans |-> "idle"]
    /\ limit = [s \in Scans |-> 0]
    /\ hist = [s \in Scans |-> <<>>]
    /\ scanned = [s \in Scans |-> 0]
    /\ logged = [s \in Scans |-> 0]
    /\ sent = [s \in Scans |-> <<>>]
    /\ done_before = [s \in Scans |-> {}]
    /\ embed_in \in embeds
    /\ accepted_raw = <<>>
    /\ declined_raw = <<>>
    /\ extracted = FALSE
    /\ name_in \in names
    /\ name_out = <<>>
    /\ leader_pc = "idle"
    /\ leader_lines = <<>>
    /\ leader_sent = <<>>
    /\ returned = [op |-> "none", raised |-> "none", value |-> <<>>]
    /\ csv_file = NoFile
    /\ scanner = [r \in ScannerRuns |-> IdleFrame]

Init == InitWith(Channels, {EmbedNothing}, {<<>>})

FailedText == <<"Failed to fetch the announcements channel.">>
ReportText(s, l, lim) == <<"Scanned", s, "Apollo events, logged", l, "attendees (limit:", lim>>

\* variant: the failure is sent and the command goes on to read the history
Start_continuing_after_failure(s, lim, resolved) ==
    /\ pc[s] = "idle"
    /\ scanned' = [scanned EXCEPT ![s] = 0]
    /\ logged' = [logged EXCEPT ![s] = 0]
    /\ limit' = [limit EXCEPT ![s] = Min(lim, MaxLimit)]
    /\ pc' = [pc EXCEPT ![s] = "fetch"]
    /\ sent' = [sent EXCEPT ![s] = IF resolved THEN defer_response(sent[s])
                                   ELSE send_response(sent[s], FailedText)]
    /\ UNCHANGED <<channel, hist, done_before>>
    /\ UNCHANGED <<ledgerVars, windowVars, extractVars, normVars, leaderVars, queryVars, csvVars>>

\* the command is invoked.  resolved: whether bot.get_channel found the
\* channel.  Not found: the failure is sent and the command returns.  Found:
\* the response is deferred and the history is asked for.
Start(s, lim, resolved) ==
    /\ pc[s] = "idle"
    /\ scanned' = [scanned EXCEPT ![s] = 0]
    /\ logged' = [logged EXCEPT ![s] = 0]
    /\ limit' = [limit EXCEPT ![s] = Min(lim, MaxLimit)]
    /\ IF resolved
       THEN /\ pc' = [pc EXCEPT ![s] = "fetch"]
            /\ sent' = [sent EXCEPT ![s] = defer_response(sent[s])]
       ELSE /\ pc' = [pc EXCEPT ![s] = "done"]
            /\ sent' = [sent EXCEPT ![s] = send_response(sent[s], FailedText)]
    /\ UNCHANGED <<channel, hist, done_before>>
    /\ UNCHANGED <<ledgerVars, windowVars, extractVars, normVars, leaderVars, queryVars, csvVars>>

\* target_channel.history(limit=limit) delivers
Fetch(s) ==
    /\ pc[s] = "fetch"
    /\ hist' = [hist EXCEPT ![s] = history(channel, limit[s])]
    /\ done_before' = [done_before EXCEPT ![s] = {t \in Scans : pc[t] = "done"}]
    /\ pc' = [pc EXCEPT ![s] = "loop"]
    /\ UNCHANGED <<channel, limit, scanned, logged, sent>>
    /\ UNCHANGED <<ledgerVars, windowVars, extractVars, normVars, leaderVars, queryVars, csvVars>>

\* one iteration of "async for msg in ...": no await inside the body
Step(s) ==
    /\ pc[s] = "loop"
    /\ hist[s] # <<>>
    /\ \E msg \in {Msg(Head(hist[s]))} :     \* msg and st are evaluated once
       \E st \in {ProcessEmbeds([entries |-> attendance_log, events |-> event_log,
                                logged |-> logged[s]],
                               msg.id, msg.embeds, now)} :
          IF ~IsCandidate(msg)
          THEN UNCHANGED <<attendance_log, event_log, scanned, logged>>
          ELSE /\ scanned' = [scanned EXCEPT ![s] = @ + 1]
               /\ attendance_log' = st.entries
               /\ event_log' = st.events
               /\ logged' = [logged EXCEPT ![s] = st.logged]
    /\ hist' = [hist EXCEPT ![s] = Tail(hist[s])]
    /\ UNCHANGED <<channel, pc, limit, sent, done_before>>
    /\ UNCHANGED <<now, calls, added, cleared, extractVars, normVars, leaderVars, queryVars, csvVars>>

\* variant: the command returns when the history is exhausted, sending nothing
Report_returning_silently(s) ==
    /\ pc[s] = "loop"
    /\ hist[s] = <<>>
    /\ pc' = [pc EXCEPT ![s] = "done"]
    /\ UNCHANGED <<channel, limit, hist, scanned, logged, sent, done_before>>
    /\ UNCHANGED <<ledgerVars, windowVars, extractVars, normVars, leaderVars, queryVars, csvVars>>

\* the history is exhausted: await interaction.followup.send(f"Scanned ...")
Report(s) ==
    /\ pc[s] = "loop"
    /\ hist[s] = <<>>
    /\ sent' = [sent EXCEPT ![s] =
                    followup_send(sent[s], ReportText(scanned[s], logged[s], limit[s]))]
    /\ pc' = [pc EXCEPT ![s] = "done"]
    /\ UNCHANGED <<channel, limit, hist, scanned, logged, done_before>>
    /\ UNCHANGED <<ledgerVars, windowVars, extractVars, normVars, leaderVars, queryVars, csvVars>>

\* The clock stands still while the commands run: nothing in /scan_apollo reads
\* a timestamp back.  It advances in the specifications of the two classes.
Next ==
    \/ \E s \in Scans, lim \in Limits, resolved \in BOOLEAN : Start(s, lim, resolved)
    \/ \E s \in Scans : Fetch(s)
    \/ \E s \in Scans : Step(s)
    \/ \E s \in Scans : Report(s)

Spec == Init /\ [][Next]_vars

\* the history iterator hands its next message to the loop of interaction s:
\* the steps that shorten hist[s] are the steps Step(s), and Step(s) is
\* enabled exactly when this is
Deliver(s) ==
    /\ pc[s] = "loop"
    /\ hist[s] # <<>>
    /\ hist' = [hist EXCEPT ![s] = Tail(hist[s])]

\* The event loop resumes every coroutine whose await has completed: a
\* history that keeps delivering hands over its first message, its next
\* message or its end, and the send of the report returns.
FairSpec ==
    /\ Init /\ [][Next]_vars
    /\ \A s \in Scans : WF_vars(Fetch(s)) /\ WF_hist(Deliver(s)) /\ WF_vars(Report(s))

----------------------------------------------------------------------------
(* botscanner.py: the scan_apollo command run on a channel *)

\* target_channel.history(limit=18)
HistoryLimit == 18

ScannerReportText(s, l) == <<"Scanned", s, "Apollo events, logged", l, "attendees.">>

\* the channels the CSV-backed scanner is run on
ScannerChannels ==
    { <<>>, <<1000>>, <<1001>>, <<1000, 1001>>, <<1001, 1007>>, <<1007, 1001>>,
      <<1002>>, <<1003>>, <<1004, 1005>>, <<1000, 1005>>, <<1006, 1007>> }

\* invocation r of the command: scanned = 0, logged = 0.  resolved: whether
\* bot.get_channel found the channel; if not, the failure is sent and the
\* command returns.  Otherwise the coroutine is suspended in the request for
\* the history; earlier invocations need not have ended.
ScannerStart(r, resolved) ==
    /\ scanner[r].pc = "idle"
    /\ \A q \in ScannerRuns : q < r => scanner[q].pc # "idle"
    /\ scanner' = [scanner EXCEPT ![r] =
                       [IdleFrame EXCEPT
                            !.pc = IF resolved THEN "fetch" ELSE "done",
                            !.sent = IF resolved THEN <<>> ELSE <<FailedText>>]]
    /\ UNCHANGED <<csv_file, ledgerVars, windowVars, scanVars, extractVars, normVars,
                   leaderVars, queryVars>>

\* target_channel.history(limit=18) delivers: the messages of the channel
\* as it is now, newest first
ScannerFetch(r) ==
    /\ scanner[r].pc = "fetch"
    /\ scanner' = [scanner EXCEPT ![r].pc = "loop",
                                  ![r].hist = history(channel, HistoryLimit)]
    /\ UNCHANGED <<csv_file, ledgerVars, windowVars, scanVars, extractVars, normVars,
                   leaderVars, queryVars>>

\* one iteration of "async for msg in target_channel.history(limit=18)":
\* the body has no await; an exception ends the command
ScannerStep(r) ==
    /\ scanner[r].pc = "loop"
    /\ scanner[r].hist # <<>>
    /\ \E msg \in {Msg(Head(scanner[r].hist))} :
          IF ~IsCandidate(msg)
          THEN /\ scanner' = [scanner EXCEPT ![r].hist = Tail(@)]
               /\ UNCHANGED csv_file
          ELSE \E st \in {ScanEmbeds([fr |-> [scanner[r] EXCEPT !.scanned = @ + 1,
                                                                !.hist = Tail(@)],
                                      file |-> csv_file, ts |-> now],
                                     msg.id, msg.embeds)} :
                  /\ csv_file' = st.file
                  /\ scanner' = [scanner EXCEPT ![r] =
                                     IF st.fr.raised # "none"
                                     THEN [st.fr EXCEPT !.pc = "raised"]
                                     ELSE st.fr]
    /\ UNCHANGED <<ledgerVars, windowVars, scanVars, extractVars, normVars,
                   leaderVars, queryVars>>

\* the history is exhausted: await ctx.send(f"Scanned ...")
ScannerReport(r) ==
    /\ scanner[r].pc = "loop"
    /\ scanner[r].hist = <<>>
    /\ scanner' = [scanner EXCEPT
                       ![r].pc = "done",
                       ![r].sent = Append(@, ScannerReportText(scanner[r].scanned,
                                                              scanner[r].logged))]
    /\ UNCHANGED <<csv_file, ledgerVars, windowVars, scanVars, extractVars, normVars,
                   leaderVars, queryVars>>

NextScanner ==
    \/ \E r \in ScannerRuns, resolved \in BOOLEAN : ScannerStart(r, resolved)
    \/ \E r \in ScannerRuns : ScannerFetch(r)
    \/ \E r \in ScannerRuns : ScannerStep(r)
    \/ \E r \in ScannerRuns : ScannerReport(r)

InitScanner == InitWith(ScannerChannels, {EmbedNothing}, {<<>>})

ScannerSpec == InitScanner /\ [][NextScanner]_vars

----------------------------------------------------------------------------
(* /leaderboard *)

\* the modelled characters in the order of their code points
CharOrder ==
    <<"\t", "\n", "", "\f", "\r", "", "", "", "", " ", "*", "-", ".",
      "0", "1", "2", "3", "4", "5", "6", "7", "8", "9", "A", "B", "C", "D",
      "E", "F", "G", "H", "I", "J", "K", "L", "M", "N", "O", "P", "Q", "R",
      "S", "T", "U", "V", "W", "X", "Y", "Z", "_", "a", "b", "c", "d", "e",
      "f", "g", "h", "i", "j", "k", "l", "m", "n", "o", "p", "q", "r", "s",
      "t", "u", "v", "w", "x", "y", "z", "", " ", "ª", "²", "³", "µ", "¹",
      "º", "¼", "½", "¾", "À", "Á", "Â", "Ã", "Ä", "Å", "Æ", "Ç", "È", "É",
      "Ê", "Ë", "Ì", "Í", "Î", "Ï", "Ð", "Ñ", "Ò", "Ó", "Ô", "Õ", "Ö", "Ø",
      "Ù", "Ú", "Û", "Ü", "Ý", "Þ", "ß", "à", "á", "â", "ã", "ä", "å", "æ",
      "ç", "è", "é", "ê", "ë", "ì", "í", "î", "ï", "ð", "ñ", "ò", "ó", "ô",
      "õ", "ö", "ø", "ù", "ú", "û", "ü", "ý", "þ", "ÿ">>

\* the rank of ord(c) among the modelled characters
ord(c) == CHOOSE i \in 1..Len(CharOrder) : CharOrder[i] = c

\* a < b of two str
RECURSIVE str_lt(_, _)
str_lt(a, b) ==
    IF b = <<>> THEN FALSE
    ELSE IF a = <<>> THEN TRUE
    ELSE IF Head(a) = Head(b) THEN str_lt(Tail(a), Tail(b))
    ELSE ord(Head(a)) < ord(Head(b))

\* variant: the names are not compared
key_lt_by_count_only(x, y) == y.accepted < x.accepted

\* key(x) < key(y) for key = lambda x: (-x[1]["accepted"], x[1]["display_name"])
key_lt(x, y) ==
    \/ y.accepted < x.accepted
    \/ x.accepted = y.accepted /\ str_lt(x.display_name, y.display_name)

\* sorted() is stable: x goes after every item whose key is not greater
RECURSIVE InsertSorted(_, _)
InsertSorted(items, x) ==
    IF items = <<>> THEN <<x>>
    ELSE IF key_lt(x, Head(items)) THEN <<x>> \o items
    ELSE <<Head(items)>> \o InsertSorted(Tail(items), x)

RECURSIVE SortFrom(_, _)
SortFrom(done, items) ==
    IF items = <<>> THEN done ELSE SortFrom(InsertSorted(done, Head(items)), Tail(items))

\* sorted(participation_data.items(), key=...)
sorted_participants(participation_data) == SortFrom(<<>>, participation_data)

\* declined_only = [... for ... in sorted_participants if accepted == 0 and declined > 0]
declined_only(sorted) == SelectSeq(sorted, LAMBDA x : x.accepted = 0 /\ x.declined > 0)

\* a line of the message: what its f-string is filled with
Line(kind, i, display_name, count, total) ==
    [kind |-> kind, i |-> i, display_name |-> display_name, count |-> count, total |-> total]

\* datetime.now().strftime('%B'): the readings of the clock all fall in one
\* month
strftime_B(t) == <<"S","e","p","t","e","m","b","e","r">>

\* the list lines once built, month being datetime.now().strftime('%B')
LeaderboardLines(events, month) ==
    LET participation_data == get_all_participants(events)
        sorted == sorted_participants(participation_data)
        declined == declined_only(sorted)
    IN <<Line("title", 0, month, 0, 0)>>
       \o [i \in 1..Len(sorted) |->
              Line("events", i, sorted[i].display_name, sorted[i].accepted,
                   total_events(events))]
       \o (IF declined # <<>>
           THEN <<Line("declined title", 0, <<>>, 0, 0)>>
                \o [i \in 1..Len(declined) |->
                       Line("declines", i, declined[i].display_name, declined[i].declined, 0)]
           ELSE <<>>)
       \o <<Line("total", 0, <<>>, Len(participation_data), 0)>>

\* len() of a line: the characters of its f-string, an emoji being one
LineLen(line) ==
    CASE line.kind = "title" -> 25 + Len(line.display_name) + 2
      [] line.kind = "events" ->
             Len(Str(line.i)) + 4 + Len(line.display_name) + 5
                 + Len(Str(line.count)) + 1 + Len(Str(line.total)) + 9
      [] line.kind = "declined title" -> 17
      [] line.kind = "declines" ->
             Len(Str(line.i)) + 4 + Len(line.display_name) + 5 + Len(Str(line.count)) + 11
      [] line.kind = "total" -> 26 + Len(Str(line.count))

\* len("\n".join(lines))
RECURSIVE MessageLen(_)
MessageLen(lines) ==
    IF lines = <<>> THEN 0
    ELSE LineLen(Head(lines)) + (IF Len(lines) > 1 THEN 1 ELSE 0) + MessageLen(Tail(lines))

ChunkSize == 1900

\* the characters first..last of "\n".join(lines)
Slice(lines, first, last) == [lines |-> lines, first |-> first, last |-> last]

\* what is sent: message if len(message) <= 1900, otherwise
\* [message[i:i + 1900] for i in range(0, len(message), 1900)]
Chunks(lines) ==
    LET n == MessageLen(lines)
    IN IF n > ChunkSize
       THEN [k \in 1..((n + ChunkSize - 1) \div ChunkSize) |->
                Slice(lines, (k - 1) * ChunkSize + 1,
                      IF k * ChunkSize < n THEN k * ChunkSize ELSE n)]
       ELSE <<Slice(lines, 1, n)>>

NoEventsText == <<"No events have been scanned yet.">>

\* the command is invoked, on a new interaction.  Empty window: the notice is
\* sent and the command returns.  Otherwise the response is deferred.
LeaderboardStart ==
    /\ leader_pc \in {"idle", "done"}
    /\ leader_lines' = <<>>
    /\ IF total_events(event_log) = 0
       THEN /\ leader_sent' = send_response(<<>>, NoEventsText)
            /\ leader_pc' = "done"
       ELSE /\ leader_sent' = defer_response(<<>>)
            /\ leader_pc' = "rank"
    /\ UNCHANGED <<ledgerVars, windowVars, scanVars, extractVars, normVars, queryVars, csvVars>>

\* after the first await: the lines are built from the window as it is now
\* and the response is deferred a second time (no await in between).
\* responded: whether the library refuses the second defer of the interaction
\* (InteractionResponded), in which case the command ends there; otherwise
\* the coroutine is suspended in the second defer.
LeaderboardRank(responded) ==
    /\ leader_pc = "rank"
    /\ \E built \in {LeaderboardLines(event_log, strftime_B(now))} : leader_lines' = built
    /\ IF responded
       THEN /\ leader_sent' = leader_sent
            /\ leader_pc' = "done"
       ELSE /\ leader_sent' = defer_response(leader_sent)
            /\ leader_pc' = "send"
    /\ UNCHANGED <<ledgerVars, windowVars, scanVars, extractVars, normVars, queryVars, csvVars>>

\* the followups the interaction has been sent
FollowupsSent(msgs) ==
    Cardinality({i \in 1..Len(msgs) : msgs[i].via = "followup.send"})

\* after the second defer: await interaction.followup.send of the message, or
\* of its next chunk; the command returns after the last one
LeaderboardSend ==
    /\ leader_pc = "send"
    /\ \E chunks \in {Chunks(leader_lines)} :
          /\ leader_sent' = followup_send(leader_sent, chunks[FollowupsSent(leader_sent) + 1])
          /\ leader_pc' = IF FollowupsSent(leader_sent) + 1 = Len(chunks)
                          THEN "done" ELSE "send"
    /\ UNCHANGED <<leader_lines, ledgerVars, windowVars, scanVars, extractVars, normVars, queryVars, csvVars>>

\* Apollo posts the next announcement to the channel
Post(id) ==
    /\ id \in PostedIds
    /\ \A i \in 1..Len(channel) : channel[i] < id
    /\ channel' = Append(channel, id)
    /\ UNCHANGED <<pc, limit, hist, scanned, logged, sent, done_before>>
    /\ UNCHANGED <<ledgerVars, windowVars, extractVars, normVars, leaderVars, queryVars, csvVars>>

\* attendance_log.clear(), which no command calls
ClearLedger ==
    /\ attendance_log' = <<>>
    /\ UNCHANGED <<now, calls, windowVars, scanVars, extractVars, normVars, leaderVars, queryVars, csvVars>>

\* event_log.clear(), which no command calls
ClearWindow ==
    /\ event_log' = <<>>
    /\ cleared' = Len(added)
    /\ UNCHANGED <<added, ledgerVars, scanVars, extractVars, normVars, leaderVars, queryVars, csvVars>>

\* the /scan_apollo interactions that run alongside /leaderboard
BotScans == Scans \cap {1, 2}

NextBot ==
    \/ \E s \in BotScans, lim \in Limits, resolved \in BOOLEAN : Start(s, lim, resolved)
    \/ \E s \in BotScans : Fetch(s)
    \/ \E s \in BotScans : Step(s)
    \/ \E s \in BotScans : Report(s)
    \/ LeaderboardStart
    \/ \E responded \in BOOLEAN : LeaderboardRank(responded)
    \/ LeaderboardSend
    \/ \E id \in PostedIds : Post(id)

InitBot == InitWith({<<1011>>}, {EmbedNothing}, {<<>>})

BotSpec == InitBot /\ [][NextBot]_vars

\* the commands over the channel as it is, the ledger and the window being
\* cleared between their steps
NextClear ==
    \/ \E s \in BotScans, lim \in Limits, resolved \in BOOLEAN : Start(s, lim, resolved)
    \/ \E s \in BotScans : Fetch(s)
    \/ \E s \in BotScans : Step(s)
    \/ \E s \in BotScans : Report(s)
    \/ LeaderboardStart
    \/ \E responded \in BOOLEAN : LeaderboardRank(responded)
    \/ LeaderboardSend
    \/ ClearLedger
    \/ ClearWindow

InitClear == InitWith({<<1011, 1012>>}, {EmbedNothing}, {<<>>})

ClearSpec == InitClear /\ [][NextClear]_vars

----------------------------------------------------------------------------
(* AttendanceLog driven through its methods *)

Jane == <<"J","a","n","e">>
Bob == <<"B","o","b">>

\* the arguments tried: keys as normalize_name produces them, display names
\* with other spellings and surrounding whitespace, the two responses
LedgerUserIds == {normalize_name(Jane), normalize_name(Bob)}
LedgerUsernames == {Jane, <<" ","J","A","N","E"," ">>}
LedgerEventIds == {1001, 1002}
Responses == {"accepted", "declined"}

\* attendance_log.log_attendance(user_id, username, event_id, response)
LogAttendance(user_id, username, event_id, response) ==
    /\ Len(calls) < MaxCalls
    /\ \E r \in {log_attendance(attendance_log, user_id, username, event_id, response, now)} :
          /\ attendance_log' = r.entries
          /\ calls' = Append(calls, [user_id |-> user_id, username |-> username,
                                     event_id |-> event_id, response |-> response,
                                     time |-> now, ret |-> r.ret,
                                     size_before |-> total_entries(attendance_log),
                                     size_after |-> total_entries(r.entries)])
          /\ returned' = [op |-> "log_attendance", raised |-> "none", value |-> r.ret]
    /\ UNCHANGED <<now, windowVars, scanVars, extractVars, normVars, leaderVars, csvVars>>

\* time passes
Tick ==
    /\ now < MaxTime
    /\ now' = now + 1
    /\ UNCHANGED <<attendance_log, calls, windowVars, scanVars, extractVars, normVars, leaderVars, queryVars, csvVars>>

NextLedger ==
    \/ \E u \in LedgerUserIds, n \in LedgerUsernames, e \in LedgerEventIds, r \in Responses :
           LogAttendance(u, n, e, r)
    \/ Tick

\* no command runs while the classes are driven directly
InitIdle == InitWith({<<>>}, {EmbedNothing}, {<<>>})

LedgerSpec == InitIdle /\ [][NextLedger]_vars

----------------------------------------------------------------------------
(* AttendanceLog: every method, and responses of any spelling *)

\* the arguments tried: one user and one event, a response that is neither
\* "accepted" nor "declined", and keys that are and are not in the dict
QueryUserIds == {normalize_name(Jane)}
QueryEventIds == {1001}
QueryResponses == {"accepted", "declined", "maybe"}
QueryKeys == {<<>>, <<"1","0","0","1","-","j","a","n","e">>, <<"1","0","0","1","-","j","a","n","e","-","d","e","c","l","i","n","e","d">>}

\* attendance_log.already_logged(pid)
AlreadyLogged(pid) ==
    /\ returned' = [op |-> "already_logged", raised |-> "none",
                    value |-> already_logged(attendance_log, pid)]
    /\ UNCHANGED <<ledgerVars, windowVars, scanVars, extractVars, normVars, leaderVars, csvVars>>

\* attendance_log.get_user_entries(user_id)
GetUserEntries(user_id) ==
    /\ returned' = [op |-> "get_user_entries", raised |-> "none",
                    value |-> get_user_entries(attendance_log, user_id)]
    /\ UNCHANGED <<ledgerVars, windowVars, scanVars, extractVars, normVars, leaderVars, csvVars>>

\* attendance_log.get_event_entries(event_id)
GetEventEntries(event_id) ==
    /\ returned' = [op |-> "get_event_entries", raised |-> "none",
                    value |-> get_event_entries(attendance_log, event_id)]
    /\ UNCHANGED <<ledgerVars, windowVars, scanVars, extractVars, normVars, leaderVars, csvVars>>

\* attendance_log.get_attendance_summary()
GetAttendanceSummary ==
    /\ \E r \in {get_attendance_summary(attendance_log)} :
          returned' = [op |-> "get_attendance_summary", raised |-> r.raised,
                       value |-> IF r.raised = "none" THEN r.value ELSE <<>>]
    /\ UNCHANGED <<ledgerVars, windowVars, scanVars, extractVars, normVars, leaderVars, csvVars>>

NextQuery ==
    \/ \E u \in QueryUserIds, n \in LedgerUsernames, e \in QueryEventIds, r \in QueryResponses :
           LogAttendance(u, n, e, r)
    \/ \E pid \in QueryKeys : AlreadyLogged(pid)
    \/ \E u \in QueryUserIds \cup {normalize_name(Bob)} : GetUserEntries(u)
    \/ \E e \in QueryEventIds \cup {1002} : GetEventEntries(e)
    \/ GetAttendanceSummary

QuerySpec == InitIdle /\ [][NextQuery]_vars

----------------------------------------------------------------------------
(* AttendanceLog: keys that look like parts of a PseudoID *)

\* names whose keys are digits, end in "declined", or are empty
KeyNames == {<<"7">>, <<"1","-","7">>, <<"7","-","d","e","c","l","i","n","e","d">>, <<"-">>}
KeyUserIds == {normalize_name(name) : name \in KeyNames}
KeyEventIds == {1, 17}

NextKey ==
    \E u \in KeyUserIds, e \in KeyEventIds, r \in Responses : LogAttendance(u, Jane, e, r)

KeySpec == InitIdle /\ [][NextKey]_vars

----------------------------------------------------------------------------
(* EventLog driven through its methods *)

\* the records tried: event ids that do not follow the order of addition
WindowEvents ==
    { [event_id |-> 1002, accepted |-> Normalized(<<Jane, <<"J","A","N","E">>>>), declined |-> <<>>],
      [event_id |-> 1001, accepted |-> <<>>, declined |-> Normalized(<<Bob, Jane>>)] }

\* event_log.add_event(EventEntry(event_id, accepted, declined))
AddEvent(event_id, accepted, declined) ==
    /\ Len(added) < MaxAdds
    /\ \E event \in {EventEntry(event_id, accepted, declined, now)} :
          /\ event_log' = add_event(event_log, event)
          /\ added' = Append(added, event)
    /\ UNCHANGED <<cleared, ledgerVars, scanVars, extractVars, normVars, leaderVars, queryVars, csvVars>>

NextWindow ==
    \/ \E ev \in WindowEvents : AddEvent(ev.event_id, ev.accepted, ev.declined)
    \/ ClearWindow

WindowSpec == InitIdle /\ [][NextWindow]_vars

----------------------------------------------------------------------------
(* The extraction applied to one embed *)

ExtractFieldNames ==
    {<<"A","c","c","e","p","t","e","d"," ","*">>, <<"D","e","c","l","i","n","e","d"," ","*">>, <<"x","-","a","c","c","e","p","t","e","d">>, <<"N","o","t","e","s">>, <<"A","C","C","E","P","T","E","D">>, <<"E","x","c","u","s","e","d">>}
ExtractValues == {<<"-"," ","J","a","n","e","\n","-"," ","B","o","b">>, <<"-"," ","R","a","y">>, <<>>, <<" ","-"," "," ","\n","-"," ","A","l"," ","-">>}
ExtractDescriptions ==
    {<<>>, <<"-"," ","A","l","i","c","e","\n","C","a","r","o","l">>, <<"-"," ","A","l","i","c","e","\n","-"," ","C","a","r","o","l">>,
     <<" "," ","-"," ","J","a","n","e","\n","R","o","s","t","e","r"," ","-"," ","x","\n","-","\n","-","B","o","b">>, <<"\t","-"," ","A","l">>}
ExtractFields == {Field(n, v) : n \in ExtractFieldNames, v \in ExtractValues}

EmbedInputs ==
    {Embed(fs, d) : fs \in {<<>>} \cup {<<f>> : f \in ExtractFields}
                            \cup {<<f, g>> : f \in ExtractFields, g \in ExtractFields},
                    d \in ExtractDescriptions}

\* the part of the embed loop that fills attendees and declined
Extract ==
    /\ ~extracted
    /\ accepted_raw' = Attendees(embed_in)
    /\ declined_raw' = Declined(embed_in)
    /\ extracted' = TRUE
    /\ UNCHANGED <<embed_in, ledgerVars, windowVars, scanVars, normVars, leaderVars, queryVars, csvVars>>

NextExtract == Extract

InitExtract == InitWith({<<>>}, EmbedInputs, {<<>>})

ExtractSpec == InitExtract /\ [][NextExtract]_vars

----------------------------------------------------------------------------
(* normalize_name applied to a string, and again to what it returned *)

\* the characters of the strings tried: letters of both cases, an upper-case
\* letter above code point 127, the underscore, punctuation, the space and
\* another whitespace character (the vertical tab, code point 11)
NameChars == {"A", "b", "É", "_", ".", " ", ""}

RECURSIVE StringsOver(_, _)
StringsOver(chars, n) ==
    IF n = 0 THEN {<<>>}
    ELSE StringsOver(chars, n - 1)
             \cup {Append(w, c) : w \in {v \in StringsOver(chars, n - 1) : Len(v) = n - 1},
                                  c \in chars}

NameInputs == StringsOver(NameChars, MaxLen)

\* name = normalize_name(name), at most twice
Normalize ==
    /\ Len(name_out) < 2
    /\ name_out' = Append(name_out, normalize_name(IF name_out = <<>> THEN name_in
                                                   ELSE name_out[Len(name_out)]))
    /\ UNCHANGED <<name_in, ledgerVars, windowVars, scanVars, extractVars, leaderVars, queryVars, csvVars>>

NextNormalize == Normalize

InitNormalize == InitWith({<<>>}, {EmbedNothing}, NameInputs)

NormalizeSpec == InitNormalize /\ [][NextNormalize]_vars

----------------------------------------------------------------------------
(* Properties of AttendanceLog, under LedgerSpec *)

SameInputs(a, b) ==
    a.event_id = b.event_id /\ a.user_id = b.user_id /\ a.response = b.response

FirstWithItsInputs(i) == \A j \in 1..(i - 1) : ~SameInputs(calls[j], calls[i])

\* C1: the ledger holds at most one entry per PseudoID; the first
\* log_attendance call with given (event_id, participant_key, response)
\* returns true and adds exactly one entry, every later call with the same
\* inputs returns false and leaves the number of entries unchanged.
C1_LogIsIdempotent ==
    /\ \A i, j \in 1..Len(attendance_log) :
           attendance_log[i].key = attendance_log[j].key => i = j
    /\ \A i \in 1..Len(calls) :
           IF FirstWithItsInputs(i)
           THEN calls[i].ret = TRUE /\ calls[i].size_after = calls[i].size_before + 1
           ELSE calls[i].ret = FALSE /\ calls[i].size_after = calls[i].size_before

\* a call was repeated with the same inputs after a call for the same
\* participant and event with the other response
C1_Witness ==
    \E i, j, k \in 1..Len(calls) :
        /\ i < j /\ j < k
        /\ calls[i].event_id = calls[j].event_id /\ calls[i].user_id = calls[j].user_id
        /\ calls[i].response # calls[j].response
        /\ SameInputs(calls[j], calls[k])
        /\ calls[j].ret = TRUE /\ calls[k].ret = FALSE

\* the display name as log_attendance stores it: trimmed
StoredName(username) == IF username = <<" ","J","A","N","E"," ">> THEN <<"J","A","N","E">> ELSE username

\* C7: a later log_attendance with a PseudoID that is already present, with
\* another display name or at a later time, does not overwrite: the entry keeps
\* the username, response and timestamp of the first write.
C7_FirstWriteStays ==
    \A i \in 1..Len(calls) :
        FirstWithItsInputs(i) =>
            \E k \in 1..Len(attendance_log) :
                /\ attendance_log[k].value.event_id = calls[i].event_id
                /\ attendance_log[k].value.user_id = calls[i].user_id
                /\ attendance_log[k].value.response = calls[i].response
                /\ attendance_log[k].value.username = StoredName(calls[i].username)
                /\ attendance_log[k].value.timestamp = calls[i].time

\* the same PseudoID was logged again later under another display name
C7_Witness ==
    \E i, j \in 1..Len(calls) :
        /\ i < j
        /\ SameInputs(calls[i], calls[j])
        /\ calls[i].username # calls[j].username
        /\ calls[i].time < calls[j].time
        /\ calls[j].ret = FALSE

----------------------------------------------------------------------------
(* Properties of EventLog *)

\* C5: the window never holds more than max_events records, whatever the
\* interleaving of the scans that add to it.
C5_WindowBounded == total_events(event_log) <= max_events

\* two scans have each added the six records of the three-message channel
C5_Witness ==
    /\ total_events(event_log) = max_events
    /\ \E s, t \in Scans : s # t /\ scanned[s] = 3 /\ scanned[t] = 3
                           /\ hist[s] = <<>> /\ hist[t] = <<>>

\* C6: after k > max_events additions recent_events is the max_events most
\* recently added records in the order of addition; with capacity 8 and 10
\* additions, records 3..10.  (k counts the additions since the window was
\* last cleared; up to max_events additions, all of them are returned.)
C6_WindowKeepsNewest ==
    LET k == Len(added) - cleared
    IN /\ recent_events(event_log) =
              SubSeq(added, cleared + (IF k > max_events THEN k - max_events + 1 ELSE 1),
                     Len(added))
       /\ (k = 10 /\ cleared = 0 /\ max_events = 8) =>
              recent_events(event_log) = SubSeq(added, 3, 10)

\* ten records were added and their event ids are not in the order of addition
C6_Witness ==
    /\ Len(added) = 10
    /\ Len(event_log) = 8
    /\ added[1] # added[9]
    /\ \E i \in 1..7 : event_log[i].event_id > event_log[i + 1].event_id

----------------------------------------------------------------------------
(* Properties of /scan_apollo, under Spec *)

\* the history interaction s was given (the channel does not change)
Fetched(s) == history(channel, limit[s])

\* the last message sent to interaction s
LastSent(s) == sent[s][Len(sent[s])]

\* interaction s has sent its final report
Reported(s) ==
    /\ pc[s] = "done"
    /\ sent[s] # <<>>
    /\ LastSent(s).via = "followup.send"
    /\ LastSent(s).content[1] = "Scanned"

OnlyScan(s) == \A t \in Scans \ {s} : pc[t] = "idle"

Keys(entries) == {entries[i].key : i \in 1..Len(entries)}

\* the event ids of the records of the window that list key under which
EventIdsListing(key, which) ==
    {event_log[i].event_id : i \in
        {j \in 1..Len(event_log) :
            \E p \in 1..Len(event_log[j][which]) : event_log[j][which][p][1] = key}}

\* C2: the accepted and declined counts get_all_participants reports count each
\* event identifier at most once per participant, also after repeated scans of
\* the same message.
C2_NoDoubleCount ==
    LET summary == get_all_participants(event_log)
    IN \A i \in 1..Len(summary) :
           /\ summary[i].accepted <= Cardinality(EventIdsListing(summary[i].key, "accepted"))
           /\ summary[i].declined <= Cardinality(EventIdsListing(summary[i].key, "declined"))

\* interaction t is scanning a one-message history that an interaction which
\* had already reported when t fetched it was given too
Rescanning(t) ==
    /\ pc[t] = "loop"
    /\ Len(Fetched(t)) = 1
    /\ IsCandidate(Msg(Fetched(t)[1]))
    /\ \E s \in done_before[t] : Reported(s) /\ Fetched(s) = Fetched(t)

\* C3: scanning the same single candidate message a second time reports
\* scanned=1 and logged=0 and leaves the ledger as the first scan left it.
C3_RescanLogsNothing ==
    [][\A t \in Scans :
          (Rescanning(t) /\ (hist'[t] # hist[t] \/ pc'[t] # pc[t])) =>
              /\ attendance_log' = attendance_log
              /\ logged'[t] = 0
              /\ pc'[t] = "done" =>
                     sent'[t][Len(sent'[t])].content = ReportText(1, 0, limit[t])]_vars

\* a second scan of the one message has reported, and the first scan had
\* logged the three names of the message
C3_Witness ==
    \E s, t \in Scans :
        /\ s # t
        /\ Reported(s) /\ Reported(t)
        /\ s \in done_before[t]
        /\ Fetched(s) = <<1001>> /\ Fetched(t) = <<1001>>
        /\ logged[s] = 3 /\ logged[t] = 0 /\ scanned[t] = 1
        /\ total_entries(attendance_log) = 3

RECURSIVE SumLogged(_)
SumLogged(n) == IF n = 0 THEN 0 ELSE logged[n] + SumLogged(n - 1)

\* C4: under every interleaving of the scans no PseudoID is inserted twice or
\* counted as logged by two scans: the logged counts of the scans add up to the
\* number of entries of the ledger.
C4_LoggedMatchesLedger ==
    /\ SumLogged(NumScans) = total_entries(attendance_log)
    /\ \A i, j \in 1..Len(attendance_log) :
           attendance_log[i].key = attendance_log[j].key => i = j

\* two scans of the same two messages interleaved: each logged the names of
\* one message and met the names the other had logged
C4_Witness ==
    \E s, t \in Scans :
        /\ s # t
        /\ Fetched(s) = <<1002, 1001>> /\ Fetched(t) = <<1002, 1001>>
        /\ hist[s] = <<>> /\ hist[t] = <<>>
        /\ scanned[s] = 2 /\ scanned[t] = 2
        /\ logged[s] > 0 /\ logged[t] > 0

\* C8: within one scan every candidate message with an embed adds exactly one
\* record, with the id of the message, to the window, however many embeds it has.
C8_OneRecordPerMessage ==
    \A s \in Scans :
        (Reported(s) /\ OnlyScan(s)) =>
            \A k \in 1..Len(Fetched(s)) :
                LET msg == Msg(Fetched(s)[k])
                IN (IsCandidate(msg) /\ msg.embeds # <<>>) =>
                       Cardinality({i \in 1..Len(event_log) :
                                        event_log[i].event_id = msg.id}) = 1

\* C9: one scan of one candidate message with event id e, into the empty
\* ledger, leaves exactly the PseudoIDs e-normalize(a) of the accepted names and
\* e-normalize(d)-declined of the declined names: for message 1001, listing
\* Jane and Bob as accepted and Ray as declined, 1001-jane, 1001-bob and
\* 1001-ray-declined.
C9_LedgerOfOneMessage ==
    \A s \in Scans :
        (Reported(s) /\ OnlyScan(s) /\ Len(Fetched(s)) = 1) =>
            LET msg == Msg(Fetched(s)[1])
            IN (IsCandidate(msg) /\ Len(msg.embeds) = 1) =>
                   /\ Keys(attendance_log) =
                          {Str(msg.id) \o DashStr \o normalize_name(a) :
                               a \in Range(Attendees(msg.embeds[1]))}
                          \cup {Str(msg.id) \o DashStr \o normalize_name(d) \o DeclinedSuffix :
                                    d \in Range(Declined(msg.embeds[1]))}
                   /\ msg.id = 1001 =>
                          /\ [i \in 1..Len(attendance_log) |-> attendance_log[i].key] =
                                 <<<<"1","0","0","1","-","j","a","n","e">>, <<"1","0","0","1","-","b","o","b">>, <<"1","0","0","1","-","r","a","y","-","d","e","c","l","i","n","e","d">>>>
                   /\ msg.id = 1002 =>
                          Keys(attendance_log) =
                              {<<"1","0","0","2","-","j","a","n","e">>, <<"1","0","0","2","-","c","p","l"," ","c"," ","h","a","r","t">>,
                               <<"1","0","0","2","-","b","o","b","-","d","e","c","l","i","n","e","d">>, <<"1","0","0","2","-","r","a","y","-","d","e","c","l","i","n","e","d">>}

\* message 1001 was scanned into the empty ledger
C9_Witness ==
    \E s \in Scans :
        /\ Reported(s) /\ OnlyScan(s)
        /\ Fetched(s) = <<1001>>
        /\ total_entries(attendance_log) = 3

----------------------------------------------------------------------------
(* Properties of the extraction, under ExtractSpec *)

\* what the claim says of the inputs tried: the field names that contain
\* "accepted" once lowercased, those that contain "declined" or "x", and the
\* non-empty stripped lines of each value
NamesWithAccepted == {<<"A","c","c","e","p","t","e","d"," ","*">>, <<"x","-","a","c","c","e","p","t","e","d">>, <<"A","C","C","E","P","T","E","D">>}
NamesWithDeclinedOrX == {<<"D","e","c","l","i","n","e","d"," ","*">>, <<"x","-","a","c","c","e","p","t","e","d">>, <<"E","x","c","u","s","e","d">>}

LinesOf(value) ==
    CASE value = <<"-"," ","J","a","n","e","\n","-"," ","B","o","b">> -> <<Jane, Bob>>
      [] value = <<"-"," ","R","a","y">> -> <<<<"R","a","y">>>>
      [] value = <<>> -> <<>>
      [] value = <<" ","-"," "," ","\n","-"," ","A","l"," ","-">> -> <<<<"A","l">>>>

DashLinesOf(description) ==
    CASE description = <<>> -> <<>>
      [] description = <<"-"," ","A","l","i","c","e","\n","C","a","r","o","l">> -> <<<<"A","l","i","c","e">>>>
      [] description = <<"-"," ","A","l","i","c","e","\n","-"," ","C","a","r","o","l">> -> <<<<"A","l","i","c","e">>, <<"C","a","r","o","l">>>>
      [] description = <<" "," ","-"," ","J","a","n","e","\n","R","o","s","t","e","r"," ","-"," ","x","\n","-","\n","-","B","o","b">> -> <<Jane, Bob>>
      [] description = <<"\t","-"," ","A","l">> -> <<<<"-"," ","A","l">>>>

RECURSIVE LinesOfFieldsIn(_, _)
LinesOfFieldsIn(fields, names) ==
    IF fields = <<>> THEN <<>>
    ELSE (IF Head(fields).name \in names THEN LinesOf(Head(fields).value) ELSE <<>>)
         \o LinesOfFieldsIn(Tail(fields), names)

\* C10: the non-empty stripped lines of a field go to accepted_raw iff its
\* lowercased name contains "accepted", and to declined_raw iff it contains
\* "declined" or "x": to both lists when both hold, to neither when neither does.
C10_FieldsByName ==
    extracted =>
        /\ accepted_raw = LinesOfFieldsIn(embed_in.fields, NamesWithAccepted)
                              \o DashLinesOf(embed_in.description)
        /\ declined_raw = LinesOfFieldsIn(embed_in.fields, NamesWithDeclinedOrX)

\* a field that matches both and a field that matches neither were extracted
C10_Witness ==
    /\ extracted
    /\ embed_in = Embed(<<Field(<<"x","-","a","c","c","e","p","t","e","d">>, <<"-"," ","R","a","y">>),
                          Field(<<"N","o","t","e","s">>, <<"-"," ","J","a","n","e","\n","-"," ","B","o","b">>)>>, <<>>)
    /\ accepted_raw = <<<<"R","a","y">>>>
    /\ declined_raw = <<<<"R","a","y">>>>
\* what the claim says of a description: the lines that start with "-" once
\* their leading whitespace is stripped, each without its marker
RECURSIVE MarkedLines(_)
MarkedLines(lines) ==
    IF lines = <<>> THEN <<>>
    ELSE (IF startswith(strip(Head(lines)), DashStr) /\ LineName(strip(Head(lines))) # <<>>
          THEN <<LineName(strip(Head(lines)))>> ELSE <<>>)
         \o MarkedLines(Tail(lines))

\* C11: every line of the description that starts with "-" once its leading
\* whitespace is stripped goes, without its marker, to accepted_raw; the other
\* lines add nothing and no line of the description goes to declined_raw.
C11_DescriptionLines ==
    extracted =>
        /\ accepted_raw = AttendeesOfFields(embed_in.fields)
                              \o MarkedLines(split(embed_in.description, NewLine))
        /\ declined_raw = DeclinedOfFields(embed_in.fields)
----------------------------------------------------------------------------
(* Properties of normalize_name, under NormalizeSpec *)

\* C12: normalize_name is idempotent: applied to what it returned, it returns
\* the same string.
C12_NormalizeIdempotent ==
    Len(name_out) = 2 => name_out[2] = name_out[1]

\* normalize_name was applied twice to a string it changes by lowering a
\* letter, removing punctuation between two whitespace characters and
\* collapsing them
C12_Witness ==
    /\ Len(name_out) = 2
    /\ name_in = <<"É"," ",".","","b">>
    /\ name_out[1] = <<"é"," ","b">>
----------------------------------------------------------------------------
(* Properties of /leaderboard, under BotSpec *)

\* the lines of the primary ranking and of the section of the declined
EventsLines == SelectSeq(leader_lines, LAMBDA l : l.kind = "events")
DeclinesLines == SelectSeq(leader_lines, LAMBDA l : l.kind = "declines")

NamesOf(ls) == [i \in 1..Len(ls) |-> ls[i].display_name]
CountsOf(ls) == [i \in 1..Len(ls) |-> ls[i].count]

\* the lines ls are in the order of descending count and, the counts being
\* equal, of ascending display name
RankedByCount(ls) ==
    \A i, j \in 1..Len(ls) :
        i < j => \/ ls[i].count > ls[j].count
                 \/ ls[i].count = ls[j].count
                        /\ ~str_lt(ls[j].display_name, ls[i].display_name)

\* C13: the primary ranking of the leaderboard lists the participants by
\* descending accepted count and, among equal accepted counts, by ascending
\* display name.
C13_RankedByAccepted == RankedByCount(EventsLines)

\* both announcements were scanned and the leaderboard ranked Zed (2) before
\* Amy and Cy (1 each, listed Cy, Amy by Apollo) before Bea and Bob (0)
C13_Witness ==
    /\ leader_pc = "done"
    /\ NamesOf(EventsLines) = <<<<"Z","e","d">>, <<"A","m","y">>, <<"C","y">>, <<"B","e","a">>, <<"B","o","b">>>>
    /\ CountsOf(EventsLines) = <<2, 1, 1, 0, 0>>

\* the lines were built from the window as it is now
LinesCurrent == leader_pc = "done" /\ leader_lines # <<>>
                    /\ leader_lines = LeaderboardLines(event_log, leader_lines[1].display_name)

\* the keys the records list under which
KeysListed(events, which) ==
    UNION {{events[i][which][p][1] : p \in 1..Len(events[i][which])} : i \in 1..Len(events)}

HasLine(ls, key) == \E i \in 1..Len(ls) : normalize_name(ls[i].display_name) = key

\* C14: a participant listed only as declined by the records of the window is
\* in the section of the declined and not in the primary ranking.
C14_DeclinedOnlyApart ==
    LinesCurrent =>
        \A key \in KeysListed(event_log, "declined") \ KeysListed(event_log, "accepted") :
            HasLine(DeclinesLines, key) /\ ~HasLine(EventsLines, key)

\* C15: the section of the declined is in the order of descending declined
\* count and, among equal counts, of ascending display name.
C15_DeclinedByCount == RankedByCount(DeclinesLines)

\* the records of events in the order perm
Permuted(events, perm) == [i \in 1..Len(events) |-> events[perm[i]]]

Orders(n) == {f \in [1..n -> 1..n] : \A i, j \in 1..n : f[i] = f[j] => i = j}

\* what a leaderboard shows of its participants: sections, order and names
Shown(ls) == [i \in 1..Len(ls) |-> <<ls[i].kind, ls[i].display_name>>]

\* every message was scanned once into the window
ScannedOnce(events) ==
    \A i, j \in 1..Len(events) : events[i].event_id = events[j].event_id => i = j

\* C16: for the messages scanned once each into the window, at most max_events
\* of them, the leaderboard shows the same participants in the same order under
\* the same names whatever the order in which they were scanned.
C16_SameForEveryOrder ==
    (LinesCurrent /\ ScannedOnce(event_log) /\ Len(event_log) <= max_events) =>
        \A perm \in Orders(Len(event_log)) :
            Shown(LeaderboardLines(Permuted(event_log, perm), leader_lines[1].display_name)) = Shown(leader_lines)
\* the (key, display name) pairs of the records in the order of the fold of
\* get_all_participants: record by record, accepted before declined
RECURSIVE AllPairs(_)
AllPairs(events) ==
    IF events = <<>> THEN <<>>
    ELSE Head(events).accepted \o Head(events).declined \o AllPairs(Tail(events))

Occurrences(events, key) == {p \in 1..Len(AllPairs(events)) : AllPairs(events)[p][1] = key}

FirstName(events, key) ==
    AllPairs(events)[CHOOSE p \in Occurrences(events, key) :
                         \A q \in Occurrences(events, key) : p <= q][2]

LatestName(events, key) ==
    AllPairs(events)[CHOOSE p \in Occurrences(events, key) :
                         \A q \in Occurrences(events, key) : q <= p][2]

\* C17 as stated: get_all_participants reports, for a key that occurs under
\* several display names, the name of its latest occurrence in fold order.
C17_LatestNameShown ==
    LET summary == get_all_participants(event_log)
    IN \A i \in 1..Len(summary) :
           summary[i].display_name = LatestName(event_log, summary[i].key)

\* C17 (amended): get_all_participants reports, for a key that occurs under
\* several display names, the name of its first occurrence in fold order;
\* later occurrences do not overwrite it.
C17_FirstNameShown ==
    LET summary == get_all_participants(event_log)
    IN \A i \in 1..Len(summary) :
           summary[i].display_name = FirstName(event_log, summary[i].key)

\* the leaderboard was built from a window whose first record spells the key
\* bob "Bob" and whose last record spells it "BOB", and shows "Bob"
C17_Witness ==
    /\ LinesCurrent
    /\ Len(event_log) = 2
    /\ FirstName(event_log, <<"b","o","b">>) = <<"B","o","b">>
    /\ LatestName(event_log, <<"b","o","b">>) = <<"B","O","B">>
    /\ \E i \in 1..Len(EventsLines) : EventsLines[i].display_name = <<"B","o","b">>
----------------------------------------------------------------------------
(* The order of the ledger, under Spec *)

\* the keys of the ledger in the order of insertion
LedgerKeys == [i \in 1..Len(attendance_log) |-> attendance_log[i].key]

AcceptedKeys(id, names) ==
    [i \in 1..Len(names) |-> Str(id) \o DashStr \o normalize_name(names[i])]
DeclinedKeys(id, names) ==
    [i \in 1..Len(names) |-> Str(id) \o DashStr \o normalize_name(names[i]) \o DeclinedSuffix]

\* the keys of one embed field by field: the names of a field under the
\* response its name stands for, then the names of the description
RECURSIVE KeysFieldByField(_, _)
KeysFieldByField(id, fields) ==
    IF fields = <<>> THEN <<>>
    ELSE (IF IsAcceptedField(Head(fields))
          THEN AcceptedKeys(id, FieldNames(Head(fields).value)) ELSE <<>>)
         \o (IF IsDeclinedField(Head(fields))
             THEN DeclinedKeys(id, FieldNames(Head(fields).value)) ELSE <<>>)
         \o KeysFieldByField(id, Tail(fields))

\* the keys of one embed: byField, in the order of its fields; otherwise all
\* accepted names before all declined names
KeysOfEmbed(id, embed, byField) ==
    IF byField
    THEN KeysFieldByField(id, embed.fields)
             \o AcceptedKeys(id, DescriptionNames(embed.description))
    ELSE AcceptedKeys(id, Attendees(embed)) \o DeclinedKeys(id, Declined(embed))

RECURSIVE KeysOfEmbeds(_, _, _)
KeysOfEmbeds(id, embeds, byField) ==
    IF embeds = <<>> THEN <<>>
    ELSE KeysOfEmbed(id, Head(embeds), byField) \o KeysOfEmbeds(id, Tail(embeds), byField)

\* the keys of the candidate messages ids, in their order
RECURSIVE KeysOfMessages(_, _)
KeysOfMessages(ids, byField) ==
    IF ids = <<>> THEN <<>>
    ELSE (IF IsCandidate(Msg(Head(ids)))
          THEN KeysOfEmbeds(Head(ids), Msg(Head(ids)).embeds, byField) ELSE <<>>)
         \o KeysOfMessages(Tail(ids), byField)

\* the first occurrences of the items of keys, in their order
RECURSIVE FirstOccurrences(_)
FirstOccurrences(keys) ==
    IF keys = <<>> THEN <<>>
    ELSE LET front == FirstOccurrences(SubSeq(keys, 1, Len(keys) - 1))
             last == keys[Len(keys)]
         IN IF \E i \in 1..Len(front) : front[i] = last THEN front ELSE Append(front, last)

\* C18 as stated: one scan inserts into the ledger message by message in the
\* order of arrival and, within a message, in the order of the embed fields
\* the names came from, whichever of accepted and declined each field is.
C18_FieldOrder ==
    \A s \in Scans :
        (Reported(s) /\ OnlyScan(s)) =>
            LedgerKeys = FirstOccurrences(KeysOfMessages(Fetched(s), TRUE))

\* C18 (amended): one scan inserts into the ledger message by message in the
\* order of arrival, embed by embed within a message and, within an embed, the
\* accepted names (fields in their order, then the description) before the
\* declined names (fields in their order).
C18_AcceptedThenDeclined ==
    \A s \in Scans :
        (Reported(s) /\ OnlyScan(s)) =>
            LedgerKeys = FirstOccurrences(KeysOfMessages(Fetched(s), FALSE))

\* one scan took message 1002, whose declined field comes first, and then
\* message 1001: the accepted names of 1002 were logged before its declined
C18_Witness ==
    \E s \in Scans :
        /\ Reported(s) /\ OnlyScan(s)
        /\ Fetched(s) = <<1002, 1001>>
        /\ LedgerKeys = <<<<"1","0","0","2","-","j","a","n","e">>, <<"1","0","0","2","-","c","p","l"," ","c"," ","h","a","r","t">>,
                          <<"1","0","0","2","-","b","o","b","-","d","e","c","l","i","n","e","d">>, <<"1","0","0","2","-","r","a","y","-","d","e","c","l","i","n","e","d">>,
                          <<"1","0","0","1","-","j","a","n","e">>, <<"1","0","0","1","-","b","o","b">>, <<"1","0","0","1","-","r","a","y","-","d","e","c","l","i","n","e","d">>>>
----------------------------------------------------------------------------
(* The ledger over the life of the bot, under BotSpec *)

\* every entry of the ledger is still there, under its PseudoID, after the step
LedgerKept ==
    \A i \in 1..Len(attendance_log) :
        \E j \in 1..Len(attendance_log') : attendance_log'[j] = attendance_log[i]

\* C19: the ledger only grows: every step other than an explicit
\* AttendanceLog.clear() keeps every PseudoID and its entry, and no step of
\* /scan_apollo or /leaderboard clears it.
C19_LedgerOnlyGrows == [][ClearLedger \/ LedgerKept]_vars

\* the ledger was cleared between two scans of the messages 1012 and 1011,
\* which logged their seven names each, the window was cleared after them,
\* and the leaderboard had run
C19_Witness ==
    /\ event_log = <<>>
    /\ \E s, t \in Scans : s # t /\ logged[s] = 7 /\ logged[t] = 7
                           /\ Reported(s) /\ Reported(t)
    /\ total_entries(attendance_log) = 7
    /\ leader_pc = "done" /\ leader_lines # <<>>
----------------------------------------------------------------------------
(* The window and the ledger, under Spec *)

\* the step is an iteration of a scan whose add_event calls drop records
\* from the full window
Evicting ==
    \E s \in Scans :
        /\ pc[s] = "loop" /\ hist[s] # <<>> /\ hist'[s] = Tail(hist[s])
        /\ IsCandidate(Msg(Head(hist[s])))
        /\ Len(event_log) + Len(Msg(Head(hist[s])).embeds) > max_events

\* C20: an add_event that drops the oldest record from the full window
\* leaves the ledger as it is: every entry of the dropped event is still in
\* the ledger afterwards.
C20_EvictionKeepsLedger == [][Evicting => LedgerKept]_vars

\* two scans added twelve records to the window, of which four were dropped;
\* the ledger holds the nine entries of the three events
C20_Witness ==
    /\ \E s, t \in Scans : s # t /\ scanned[s] = 3 /\ scanned[t] = 3
                           /\ pc[s] = "done" /\ pc[t] = "done"
    /\ total_events(event_log) = max_events
    /\ total_entries(attendance_log) = 9
    /\ \A id \in {1008, 1009, 1010} :
           \E i \in 1..Len(attendance_log) : attendance_log[i].value.event_id = id
----------------------------------------------------------------------------
(* Properties of EventLog.get_user_participation, under WindowSpec *)

\* the records added that are still in a window of max_events records: the
\* newest max_events of those added since the window was last cleared
StillInWindow == {i \in 1..Len(added) : i > Len(added) - max_events /\ i > cleared}

\* C21: get_user_participation(key) returns, for accepted and for declined,
\* the number of records now in the window whose list holds key; a record that
\* was dropped from the window counts for neither.
C21_ParticipationOfWindow ==
    \A key \in {normalize_name(Jane), normalize_name(Bob), <<"r","a","y">>} :
        /\ get_user_participation(event_log, key).accepted =
               Cardinality({i \in StillInWindow : Lists(added[i].accepted, key)})
        /\ get_user_participation(event_log, key).declined =
               Cardinality({i \in StillInWindow : Lists(added[i].declined, key)})

\* records that list jane were dropped from the window, which holds records
\* that list jane twice as accepted and records that list jane as declined
C21_Witness ==
    /\ Len(added) > max_events
    /\ Lists(added[1].accepted, <<"j","a","n","e">>) /\ Lists(added[2].declined, <<"j","a","n","e">>)
    /\ get_user_participation(event_log, <<"j","a","n","e">>).accepted > 0
    /\ get_user_participation(event_log, <<"j","a","n","e">>).declined > 0
    /\ get_user_participation(event_log, <<"j","a","n","e">>).accepted
           < Cardinality({i \in 1..Len(added) : Lists(added[i].accepted, <<"j","a","n","e">>)})
    /\ get_user_participation(event_log, <<"b","o","b">>).accepted = 0
----------------------------------------------------------------------------
(* Messages the scan passes over, under Spec *)

\* scan s takes the next message of its history, and the name of the
\* message's author does not contain "Apollo"
SkipsMessage(s) ==
    /\ pc[s] = "loop"
    /\ hist[s] # <<>>
    /\ ~Contains(<<"A","p","o","l","l","o">>, Msg(Head(hist[s])).author)
    /\ hist'[s] = Tail(hist[s])

\* C22: a message whose author's name does not contain "Apollo" (with this
\* case) is skipped without side effects: the ledger, the window, scanned and
\* logged are left as they were.
C22_OtherAuthorsSkipped ==
    [][\A s \in Scans :
          SkipsMessage(s) =>
              /\ attendance_log' = attendance_log
              /\ event_log' = event_log
              /\ scanned'[s] = scanned[s]
              /\ logged'[s] = logged[s]]_vars

\* a scan has passed over the message of "apollo-fan", whose embed names
\* three people, after counting the message of Apollo before it
C22_Witness ==
    \E s \in Scans :
        /\ channel = <<1004, 1005>>
        /\ Msg(1004).author = <<"a","p","o","l","l","o","-","f","a","n">> /\ Msg(1004).embeds # <<>>
        /\ Fetched(s) = <<1005, 1004>>
        /\ pc[s] = "loop" /\ hist[s] = <<>>
        /\ scanned[s] = 1 /\ logged[s] = 0
        /\ attendance_log = <<>> /\ event_log = <<>>
----------------------------------------------------------------------------
(* The methods of AttendanceLog and exceptions, under QuerySpec *)

\* C23: no operation of the ledger (already_logged, log_attendance,
\* get_user_entries, get_event_entries, get_attendance_summary) raises, for
\* any string inputs; in particular get_attendance_summary() after a
\* log_attendance whose response is neither "accepted" nor "declined".
C23_NoOperationRaises == returned.raised = "none"
----------------------------------------------------------------------------
(* Scans that find nothing to record, under Spec *)

\* the number of messages of ids whose author's name contains "Apollo"
NumCandidates(ids) == Cardinality({i \in 1..Len(ids) : IsCandidate(Msg(ids[i]))})

\* interaction t is scanning a history (empty, maybe) none of whose candidate
\* messages has an embed
NothingToRecord(t) ==
    /\ pc[t] = "loop"
    /\ \A i \in 1..Len(Fetched(t)) :
           IsCandidate(Msg(Fetched(t)[i])) => Msg(Fetched(t)[i]).embeds = <<>>

\* C24: a scan over an empty history, or over candidate messages without
\* embeds, is not an error: it leaves the ledger and the window unchanged
\* and completes with the report of logged=0 and scanned = the number of
\* candidate messages.
C24_NothingToRecord ==
    [][\A t \in Scans :
          (NothingToRecord(t) /\ (hist'[t] # hist[t] \/ pc'[t] # pc[t])) =>
              /\ attendance_log' = attendance_log
              /\ event_log' = event_log
              /\ logged'[t] = 0
              /\ pc'[t] \in {"loop", "done"}
              /\ pc'[t] = "done" =>
                     /\ hist[t] = <<>>
                     /\ sent'[t][Len(sent'[t])] =
                            [via |-> "followup.send",
                             content |-> ReportText(NumCandidates(Fetched(t)), 0, limit[t])]]_vars

\* a scan of two messages, one of Apollo without embeds and one of another
\* author, has reported scanned=1, logged=0 and nothing was recorded
C24_Witness ==
    \E t \in Scans :
        /\ Reported(t)
        /\ Fetched(t) = <<1005, 1004>>
        /\ Msg(1005).embeds = <<>> /\ IsCandidate(Msg(1005))
        /\ LastSent(t).content = ReportText(1, 0, 100)
        /\ attendance_log = <<>> /\ event_log = <<>>
----------------------------------------------------------------------------
(* Termination of the scans, under FairSpec *)

\* the messages interaction s was sent after its response was deferred
NumReports(s) ==
    Cardinality({i \in 1..Len(sent[s]) : sent[s][i].via = "followup.send"})

\* C25: every scan that was started over the (finite) history of the channel
\* finishes, having sent its final report, and sends that report once only.
C25_ScanFinishes ==
    /\ \A s \in Scans :
           (pc[s] = "fetch") ~> (Reported(s) /\ hist[s] = <<>> /\ NumReports(s) = 1)
    /\ [](\A s \in Scans : NumReports(s) <= 1)

\* two scans of the three-message channel have both reported, each once
C25_Witness ==
    \E s, t \in Scans :
        /\ s # t
        /\ Reported(s) /\ Reported(t)
        /\ Len(Fetched(s)) = 3 /\ Len(Fetched(t)) = 3
        /\ NumReports(s) = 1 /\ NumReports(t) = 1
----------------------------------------------------------------------------
(* PseudoIDs of distinct facts, under KeySpec *)

\* the fact call i was to record
Fact(i) == <<calls[i].event_id, calls[i].user_id, calls[i].response>>

\* C26: the PseudoID is injective on (event id >= 0, key made by
\* normalize_name, response accepted or declined): a fact is refused as a
\* duplicate only if the same fact was logged before, and the ledger holds
\* one entry for each distinct fact it was given.
C26_PseudoIdInjective ==
    /\ \A j \in 1..Len(calls) :
           calls[j].ret = FALSE => \E i \in 1..(j - 1) : Fact(i) = Fact(j)
    /\ total_entries(attendance_log) = Cardinality({Fact(i) : i \in 1..Len(calls)})

\* three facts whose parts run into each other were all logged: event 1 with
\* key "17", event 17 with key "7", and event 1 with key "7declined"
C26_Witness ==
    /\ Len(calls) = 3
    /\ Fact(1) = <<1, <<"1","7">>, "accepted">>
    /\ Fact(2) = <<17, <<"7">>, "accepted">>
    /\ Fact(3) = <<1, <<"7","d","e","c","l","i","n","e","d">>, "accepted">>
    /\ \A i \in 1..3 : calls[i].ret = TRUE
    /\ total_entries(attendance_log) = 3
    /\ <<>> \in KeyUserIds
----------------------------------------------------------------------------
(* The names taken from the lines of a field, under ExtractSpec *)

\* what the claim says of a line: the leading "-" and space markers removed,
\* then the surrounding whitespace; what follows the markers is kept
NameAfterMarkers(line) ==
    strip(SubSeq(line, LeadCount(line, {"-", " "}, 1) + 1, Len(line)))

RECURSIVE NamesAfterMarkers(_)
NamesAfterMarkers(lines) ==
    IF lines = <<>> THEN <<>>
    ELSE (IF NameAfterMarkers(Head(lines)) # <<>>
          THEN <<NameAfterMarkers(Head(lines))>> ELSE <<>>)
         \o NamesAfterMarkers(Tail(lines))

RECURSIVE NamesAfterMarkersIn(_, _)
NamesAfterMarkersIn(fields, names) ==
    IF fields = <<>> THEN <<>>
    ELSE (IF Head(fields).name \in names
          THEN NamesAfterMarkers(split(Head(fields).value, NewLine)) ELSE <<>>)
         \o NamesAfterMarkersIn(Tail(fields), names)

\* C27: for every line of an accepted or declined field's value, the raw name
\* is the line without its leading "-" and space markers and without
\* surrounding whitespace, hyphens at its end being kept; it is appended only
\* if it is not empty.
C27_LeadingMarkersOnly ==
    extracted =>
        /\ accepted_raw = NamesAfterMarkersIn(embed_in.fields, NamesWithAccepted)
                              \o DescriptionNames(embed_in.description)
        /\ declined_raw = NamesAfterMarkersIn(embed_in.fields, NamesWithDeclinedOrX)
----------------------------------------------------------------------------
(* The CSV-backed scanner of botscanner.py, under ScannerSpec *)

\* the fact a row of the CSV records
RowFact(i) == <<csv_file.rows[i].EventID, csv_file.rows[i].UserID, csv_file.rows[i].Response>>

\* C28: already_logged removes duplicates: after any sequence of scan_apollo
\* runs the CSV of the month holds at most one row for each (EventID, name,
\* response); scanning the same message again appends no row.
C28_OneRowPerFact ==
    \A i, j \in 1..Len(csv_file.rows) : RowFact(i) = RowFact(j) => i = j

\* C29: an embed whose list of accepted names is empty (a declined field
\* only, or no field and no description) is not an error: the command is
\* never ended by an exception, it goes on to the declined names and to the
\* following messages and sends its report.
C29_EmptyAcceptedIsNoError ==
    \A r \in ScannerRuns : scanner[r].pc # "raised" /\ scanner[r].raised = "none"
----------------------------------------------------------------------------
(* /scan_apollo when the channel is not found, under Spec *)

\* interaction s was told that the channel could not be fetched
ToldOfFailure(s) ==
    \E i \in 1..Len(sent[s]) : sent[s][i].content = FailedText

\* C30: when scan_apollo cannot resolve the target channel it sends the
\* failure response and returns without reading any history: the ledger and
\* the window are as they were and no scan report is ever sent to it.
C30_UnresolvedChannel ==
    /\ [][\A s \in Scans :
             (~ToldOfFailure(s) /\ ToldOfFailure(s)') =>
                 /\ sent'[s] = <<[via |-> "response.send_message", content |-> FailedText]>>
                 /\ pc'[s] = "done"
                 /\ attendance_log' = attendance_log
                 /\ event_log' = event_log]_vars
    /\ [](\A s \in Scans :
             ToldOfFailure(s) =>
                 /\ pc[s] = "done"
                 /\ hist[s] = <<>>
                 /\ scanned[s] = 0 /\ logged[s] = 0
                 /\ Len(sent[s]) = 1
                 /\ NumReports(s) = 0)

\* an interaction was told of the failure after another had scanned the
\* channel and logged its three names
C30_Witness ==
    \E s, t \in Scans :
        /\ ToldOfFailure(s) /\ pc[s] = "done"
        /\ s # t
        /\ Reported(t) /\ logged[t] = 3
        /\ total_entries(attendance_log) = 3
        /\ channel = <<1001>>
----------------------------------------------------------------------------
(* The counts of EventLog.get_all_participants, under Spec *)

\* C31: for every participant of get_all_participants() the accepted count
\* and the declined count are each at most total_events, the number of
\* records in the window: the leaderboard never shows more events attended
\* than events considered.
C31_CountsWithinTotal ==
    \A i \in 1..Len(get_all_participants(event_log)) :
        /\ get_all_participants(event_log)[i].accepted <= total_events(event_log)
        /\ get_all_participants(event_log)[i].declined <= total_events(event_log)

\* C32: for every key in the window, get_all_participants()[key] has the
\* accepted and declined counts that get_user_participation(key) returns,
\* also when a name occurs more than once in one record.
C32_AggregationsAgree ==
    \A i \in 1..Len(get_all_participants(event_log)) :
        LET stats == get_all_participants(event_log)[i]
            summary == get_user_participation(event_log, stats.key)
        IN /\ stats.accepted = summary.accepted
           /\ stats.declined = summary.declined
----------------------------------------------------------------------------
(* The window against the ledger, under Spec *)

\* the ledger has an entry under <event_id>-<key><suffix>
Holds(event_id, key, suffix) ==
    \E e \in 1..Len(attendance_log) :
        attendance_log[e].key = Str(event_id) \o <<"-">> \o key \o suffix

\* C33: between the iterations of the scans, interleaved as they may be,
\* every (key, display name) pair of the accepted list of a record in the
\* window has a ledger entry with PseudoID <event_id>-<key>, and every pair
\* of a declined list has one with PseudoID <event_id>-<key>-declined.
C33_WindowWithinLedger ==
    \A i \in 1..Len(event_log) :
        /\ \A p \in 1..Len(event_log[i].accepted) :
               Holds(event_log[i].event_id, event_log[i].accepted[p][1], <<>>)
        /\ \A p \in 1..Len(event_log[i].declined) :
               Holds(event_log[i].event_id, event_log[i].declined[p][1], <<"-","d","e","c","l","i","n","e","d">>)

\* two scans of the two-message channel have run interleaved: the second
\* fetched before the first was done, and the window holds their four
\* records, with accepted and declined names
C33_Witness ==
    \E s, t \in Scans :
        /\ s # t
        /\ Reported(s) /\ Reported(t)
        /\ s \notin done_before[t] /\ t \notin done_before[s]
        /\ channel = <<1001, 1002>>
        /\ Len(event_log) = 4
        /\ \A i \in 1..4 : event_log[i].accepted # <<>> /\ event_log[i].declined # <<>>
        /\ total_entries(attendance_log) = 7

----------------------------------------------------------------------------
(* /leaderboard and the responses of its interaction, under BotSpec *)

\* the positions of leader_sent that are initial responses of the interaction
InitialResponses ==
    {i \in 1..Len(leader_sent) :
        leader_sent[i].via \in {"response.defer", "response.send_message"}}

\* the followups of leader_sent, in order
LeaderFollowups == SelectSeq(leader_sent, LAMBDA m : m.via = "followup.send")

\* C34: on every path through /leaderboard the initial response of the
\* interaction (a defer or a send_message) is issued at most once and comes
\* first, everything after it goes through followup sends, and once the
\* command has returned with the lines of a non-empty window, the ranked
\* message built from those lines has been sent in followups.
C34_RespondsOnceThenRanks ==
    /\ Cardinality(InitialResponses) <= 1
    /\ \A i \in 2..Len(leader_sent) : leader_sent[i].via = "followup.send"
    /\ (leader_pc = "done" /\ leader_lines # <<>>) =>
          [i \in 1..Len(LeaderFollowups) |-> LeaderFollowups[i].content]
              = Chunks(leader_lines)

====
